---- MODULE Spec2Model ----
(***************************************************************************)
(* A model of mn-elections-api: the identity helpers of lib/utility.js,    *)
(* the district meta parser of lib/meta.js, the print exporter of          *)
(* lib/print.js and the command line handlers of the bin script.           *)
(*                                                                         *)
(* JavaScript strings are sequences of one-character strings.  A           *)
(* JavaScript value is a record [t, s]: t is the kind of value and s the   *)
(* text it holds (for a number, its toString()).                           *)
(***************************************************************************)
EXTENDS Integers, Sequences, FiniteSets, TLC

VARIABLES
    \* utility.makeID: two arrays of parts and the IDs made of them
    parts1, parts2, id1, id2,
    \* utility.raw: the input, the type asked for and the value returned
    rawInput, rawType, rawResult,
    \* Meta.updateNames: the name field of a Meta object and the number of updates
    name, updates, nameOnce,
    \* Meta: the election's id, the last constructor call and the records built
    electionId, metaCall, metaResult, districts,
    \* toPrint: the contests and the section handed over and the text returned
    contests, section, printed,
    \* the command line: the command running, its options, its position, what
    \* it did so far, the exit status, the config file, what e.verify()
    \* returned, the independent results fetched, the answer to the prompt,
    \* the Election object and the rows of the supplement datasource
    cmd, argv, pc, steps, exitCode, configFile, verified, independent, answers,
    election, supplement

utilVars == <<parts1, parts2, id1, id2, rawInput, rawType, rawResult>>
nameVars == <<name, updates, nameOnce>>
metaVars == <<electionId, metaCall, metaResult, districts>>
printVars == <<contests, section, printed>>
cliVars ==
    <<cmd, argv, pc, steps, exitCode, configFile, verified, independent, answers,
      election, supplement>>
vars == <<utilVars, nameVars, metaVars, printVars, cliVars>>

(***************************************************************************)
(* Values                                                                  *)
(***************************************************************************)
Undefined == [t |-> "undefined", s |-> <<>>]
Null == [t |-> "null", s |-> <<>>]
NaN == [t |-> "nan", s |-> <<>>]
Str(chars) == [t |-> "str", s |-> chars]
Num(digits) == [t |-> "num", s |-> digits]

\* _.isNil, _.isNaN, _.isString, _.isNumber
isNil(v) == v.t \in {"undefined", "null"}
isNaN(v) == v.t = "nan"
isString(v) == v.t = "str"
isNumber(v) == v.t \in {"num", "nan"}

(***************************************************************************)
(* Characters                                                              *)
(***************************************************************************)
LowerLetters ==
    <<"a", "b", "c", "d", "e", "f", "g", "h", "i", "j", "k", "l", "m",
      "n", "o", "p", "q", "r", "s", "t", "u", "v", "w", "x", "y", "z">>
UpperLetters ==
    <<"A", "B", "C", "D", "E", "F", "G", "H", "I", "J", "K", "L", "M",
      "N", "O", "P", "Q", "R", "S", "T", "U", "V", "W", "X", "Y", "Z">>
Digits == {"0", "1", "2", "3", "4", "5", "6", "7", "8", "9"}
Spaces == {" ", "\t", "\n"}

Range(f) == {f[i] : i \in DOMAIN f}
Lowers == Range(LowerLetters)
Uppers == Range(UpperLetters)
IsLower(c) == c \in Lowers
IsUpper(c) == c \in Uppers
IsDigit(c) == c \in Digits
IsSpace(c) == c \in Spaces
IsAlnum(c) == IsLower(c) \/ IsUpper(c) \/ IsDigit(c)

IndexOf(f, c) == CHOOSE i \in DOMAIN f : f[i] = c
LowerChar(c) == IF IsUpper(c) THEN LowerLetters[IndexOf(UpperLetters, c)] ELSE c
UpperChar(c) == IF IsLower(c) THEN UpperLetters[IndexOf(LowerLetters, c)] ELSE c

\* String.prototype.toLowerCase / toUpperCase
toLowerCase(s) == [i \in 1..Len(s) |-> LowerChar(s[i])]
toUpperCase(s) == [i \in 1..Len(s) |-> UpperChar(s[i])]

RECURSIVE LTrim(_)
LTrim(s) == IF s # <<>> /\ IsSpace(Head(s)) THEN LTrim(Tail(s)) ELSE s

RECURSIVE RTrim(_)
RTrim(s) ==
    IF s # <<>> /\ IsSpace(s[Len(s)]) THEN RTrim(SubSeq(s, 1, Len(s) - 1)) ELSE s

\* String.prototype.trim
trim(s) == RTrim(LTrim(s))

RECURSIVE Join(_, _)
\* Array.prototype.join
Join(ws, sep) ==
    IF ws = <<>> THEN <<>>
    ELSE IF Len(ws) = 1 THEN ws[1]
    ELSE ws[1] \o sep \o Join(Tail(ws), sep)

RECURSIVE RunLen(_, _, _)
\* length of the run of characters of the set C that starts at s[i]
RunLen(s, i, C) ==
    IF i <= Len(s) /\ s[i] \in C THEN 1 + RunLen(s, i + 1, C) ELSE 0

(***************************************************************************)
(* lodash kebabCase: the words of the string, lower-cased, joined by "-".  *)
(* A word is a run of digits, a run of lower-case letters with an optional *)
(* leading capital, or a run of capitals (which gives its last capital to  *)
(* a lower-case run that follows); every other ASCII character breaks.     *)
(***************************************************************************)
WordLen(s, i) ==
    IF IsDigit(s[i]) THEN RunLen(s, i, Digits)
    ELSE IF IsLower(s[i]) THEN RunLen(s, i, Lowers)
    ELSE IF i < Len(s) /\ IsLower(s[i + 1]) THEN 1 + RunLen(s, i + 1, Lowers)
    ELSE LET k == RunLen(s, i, Uppers)
         IN  IF i + k <= Len(s) /\ IsLower(s[i + k]) THEN k - 1 ELSE k

RECURSIVE WordsFrom(_, _)
WordsFrom(s, i) ==
    IF i > Len(s) THEN <<>>
    ELSE IF ~IsAlnum(s[i]) THEN WordsFrom(s, i + 1)
    ELSE LET n == WordLen(s, i)
         IN  <<SubSeq(s, i, i + n - 1)>> \o WordsFrom(s, i + n)

words(s) == WordsFrom(s, 1)

lowerWords(ws) == [i \in 1..Len(ws) |-> toLowerCase(ws[i])]
kebabCase(s) == Join(lowerWords(words(s)), <<"-">>)

(***************************************************************************)
(* lib/utility.js                                                          *)
(***************************************************************************)
NotYet == [t |-> "pending", s |-> <<>>]
Arr(elems) == [t |-> "arr", s |-> elems]
\* the plain object {id: chars}
Obj(chars) == [t |-> "obj", s |-> chars]
True == [t |-> "true", s |-> <<>>]
False == [t |-> "false", s |-> <<>>]
isPlainObject(v) == v.t = "obj"
isArray(v) == v.t = "arr"

\* JavaScript truthiness of a value
Truthy(v) ==
    CASE v.t = "str" -> v.s # <<>>
      [] v.t = "num" -> v.s # <<"0">>
      [] v.t \in {"arr", "obj", "true"} -> TRUE
      [] OTHER -> FALSE

\* ToString of a value, as parseInt, parseFloat and i.toString() take it
toString(v) ==
    CASE v.t = "undefined" -> <<"u", "n", "d", "e", "f", "i", "n", "e", "d">>
      [] v.t = "null" -> <<"n", "u", "l", "l">>
      [] v.t = "nan" -> <<"N", "a", "N">>
      [] OTHER -> v.s

RECURSIVE StripZeros(_)
\* a digit string without its leading zeros, one digit at least
StripZeros(d) == IF Len(d) > 1 /\ Head(d) = "0" THEN StripZeros(Tail(d)) ELSE d

RECURSIVE StripTrailingZeros(_)
StripTrailingZeros(d) ==
    IF d # <<>> /\ d[Len(d)] = "0"
    THEN StripTrailingZeros(SubSeq(d, 1, Len(d) - 1)) ELSE d

HasSign(s) == s # <<>> /\ Head(s) \in {"+", "-"}
Unsigned(s) == IF HasSign(s) THEN Tail(s) ELSE s
Signed(s, text) == IF s # <<>> /\ Head(s) = "-" /\ text # <<"0">> THEN <<"-">> \o text ELSE text

\* the digits read (n of them at the head of u) as a number; s had the sign
IntValue(s, u, n) ==
    IF n = 0 THEN NaN ELSE Num(Signed(s, StripZeros(SubSeq(u, 1, n))))
IntDigits(s, u) == IntValue(s, u, RunLen(u, 1, Digits))
IntText(s) == IntDigits(s, Unsigned(s))

\* parseInt(input, 10): leading white space, a sign, then the longest run of
\* digits; NaN when there is no digit.  The number is held as its decimal text.
parseInt(v) == IntText(LTrim(toString(v)))

\* n digits at the head of u and m digits after the "." that follows them
FloatText(int, frac) == IF frac = <<>> THEN int ELSE int \o <<".">> \o frac
FloatValue(s, u, n, m) ==
    IF n = 0 /\ m = 0 THEN NaN
    ELSE Num(Signed(s, FloatText(IF n = 0 THEN <<"0">> ELSE StripZeros(SubSeq(u, 1, n)),
                                 StripTrailingZeros(SubSeq(u, n + 2, n + 1 + m)))))
FloatFraction(s, u, n) ==
    FloatValue(s, u, n, IF n < Len(u) /\ u[n + 1] = "." THEN RunLen(u, n + 2, Digits) ELSE 0)
FloatDigits(s, u) == FloatFraction(s, u, RunLen(u, 1, Digits))
FloatOf(s) == FloatDigits(s, Unsigned(s))

\* parseFloat(input): leading white space, a sign, then the longest prefix
\* digits [. digits] or . digits (the inputs of the model hold no exponent and
\* no "Infinity"); NaN when there is none.
parseFloat(v) == FloatOf(LTrim(toString(v)))

\* _.isNaN(n) ? undefined : n
DefinedOr(n, other) == IF isNaN(n) THEN other ELSE n

\* raw as it would be if a failed parse fell back to 0
raw_zeroDefault(input, type) ==
    IF type = "int" THEN DefinedOr(parseInt(input), Num(<<"0">>))
    ELSE IF type = "float" THEN DefinedOr(parseFloat(input), Num(<<"0">>))
    ELSE IF isString(input)
    THEN IF Truthy(input) THEN Str(trim(input.s)) ELSE Undefined
    ELSE IF isNil(input) \/ isNaN(input) THEN Undefined
    ELSE input

\* utility.raw
raw(input, type) ==
    IF type = "int" THEN DefinedOr(parseInt(input), Undefined)
    ELSE IF type = "float" THEN DefinedOr(parseFloat(input), Undefined)
    ELSE IF isString(input)
    THEN IF Truthy(input) THEN Str(trim(input.s)) ELSE Undefined
    ELSE IF isNil(input) \/ isNaN(input) THEN Undefined
    ELSE input

\* the encoding of one element of the array makeID is given
makeIDPart(i) ==
    IF isNaN(i) \/ isNil(i) \/ (isString(i) /\ trim(i.s) = <<>>)
    THEN <<"|">>
    ELSE toLowerCase(kebabCase(trim(toString(i))))

makeIDParts(a) == Join([k \in 1..Len(a) |-> makeIDPart(a[k])], <<"-">>)

RECURSIVE DropBlank(_)
DropBlank(a) ==
    IF a = <<>> THEN <<>>
    ELSE IF makeIDPart(Head(a)) = <<"|">> THEN DropBlank(Tail(a))
    ELSE <<Head(a)>> \o DropBlank(Tail(a))

\* makeID as it would be if blank parts were left out of the join
makeID_dropBlank(input) ==
    IF isString(input) THEN Str(kebabCase(trim(toLowerCase(input.s))))
    ELSE IF isNumber(input) /\ ~isNaN(input) THEN Str(toString(input))
    ELSE IF isArray(input) /\ Len(input.s) > 0
    THEN Str(makeIDParts(DropBlank(input.s)))
    ELSE Undefined

\* utility.makeID
makeID(input) ==
    IF isString(input) THEN Str(kebabCase(trim(toLowerCase(input.s))))
    ELSE IF isNumber(input) /\ ~isNaN(input) THEN Str(toString(input))
    ELSE IF isArray(input) /\ Len(input.s) > 0
    THEN Str(makeIDParts(input.s))
    ELSE Undefined

RECURSIVE Repeat(_, _)
Repeat(c, n) == IF n <= 0 THEN <<>> ELSE <<c>> \o Repeat(c, n - 1)

\* _.padStart(string, length, "0")
padStart(s, n) == Repeat("0", n - Len(s)) \o s

\* padLeft as it would be if it added nothing to the left
padLeft_asIs(input, padding) ==
    IF Truthy(input) \/ isNumber(input)
    THEN Str(toString(input))
    ELSE Undefined

\* utility.padLeft with the default char
padLeft(input, padding) ==
    IF Truthy(input) \/ isNumber(input)
    THEN Str(padStart(toString(input), padding))
    ELSE Undefined

(***************************************************************************)
(* The parts of the state a specification leaves alone                     *)
(***************************************************************************)
Idle == <<>>
UtilIdle ==
    /\ parts1 = Idle /\ parts2 = Idle /\ id1 = Idle /\ id2 = Idle
    /\ rawInput = Idle /\ rawType = Idle /\ rawResult = Idle
NameIdle == name = Idle /\ updates = 0 /\ nameOnce = Idle
MetaIdle == electionId = Idle /\ metaCall = Idle /\ metaResult = Idle /\ districts = {}
PrintIdle == contests = Idle /\ section = Idle /\ printed = Idle
CliIdle ==
    /\ cmd = Idle /\ argv = Idle /\ pc = Idle /\ steps = Idle
    /\ exitCode = Idle /\ configFile = Idle
    /\ verified = Idle /\ independent = Idle /\ answers = Idle
    /\ election = Idle /\ supplement = Idle

(***************************************************************************)
(* SpecMakeID: makeID on two arrays of parts of the same length.           *)
(***************************************************************************)
MaxParts == 2

\* the values makeID takes as blank: nil, NaN, the empty and the blank string
BlankValues == <<Undefined, Null, NaN, Str(<<>>), Str(<<" ">>), Str(<<"\t", " ">>)>>

\* values that are not blank: text with separators, capitals, digits, the
\* placeholder's own character, punctuation only, and a number
SampleParts ==
    { Str(<<"a">>), Str(<<"a", "-", "b">>), Str(<<" ", "a", "B", "1">>),
      Str(<<"|">>), Str(<<"-">>), Num(<<"0">>) }

IsBlankPart(i) == isNaN(i) \/ isNil(i) \/ (isString(i) /\ trim(i.s) = <<>>)
BlankPositions(parts) == {k \in 1..Len(parts) : IsBlankPart(parts[k])}
BlankAt(k, shift) == BlankValues[((k + shift) % Len(BlankValues)) + 1]

\* base with the positions of mask made blank
Blanked(base, mask, shift) ==
    [k \in 1..Len(base) |-> IF k \in mask THEN BlankAt(k, shift) ELSE base[k]]

\* the n - |mask| values of base, in order, with blanks put at the positions of mask
Spread(base, mask, n, shift) ==
    [k \in 1..n |->
        IF k \in mask THEN BlankAt(k, shift)
        ELSE base[Cardinality({j \in 1..k : j \notin mask})]]

\* pairs that agree wherever both hold a value, and pairs that hold the same
\* values in the same order around blanks placed differently
BlankedPairs ==
    UNION { { <<Blanked(base, m1, shift), Blanked(base, m2, shift)>> :
                base \in [1..n -> SampleParts],
                m1 \in SUBSET (1..n), m2 \in SUBSET (1..n),
                shift \in 0..1 } : n \in 1..MaxParts }
ShiftedPairs ==
    UNION { UNION { { <<Spread(base, m1, n, shift), Spread(base, m2, n, shift)>> :
                base \in [1..(n - b) -> SampleParts],
                m1 \in {m \in SUBSET (1..n) : Cardinality(m) = b},
                m2 \in {m \in SUBSET (1..n) : Cardinality(m) = b},
                shift \in 0..1 } : b \in 0..n } : n \in 1..MaxParts }

InitMakeID ==
    /\ \E pair \in BlankedPairs \cup ShiftedPairs :
          parts1 = pair[1] /\ parts2 = pair[2]
    /\ id1 = NotYet /\ id2 = NotYet
    /\ rawInput = Idle /\ rawType = Idle /\ rawResult = Idle
    /\ NameIdle /\ MetaIdle /\ PrintIdle /\ CliIdle

CallMakeID1 ==
    /\ id1 = NotYet
    /\ id1' = makeID(Arr(parts1))
    /\ UNCHANGED <<parts1, parts2, id2, rawInput, rawType, rawResult>>
    /\ UNCHANGED <<nameVars, metaVars, printVars, cliVars>>

CallMakeID2 ==
    /\ id1 # NotYet /\ id2 = NotYet
    /\ id2' = makeID(Arr(parts2))
    /\ UNCHANGED <<parts1, parts2, id1, rawInput, rawType, rawResult>>
    /\ UNCHANGED <<nameVars, metaVars, printVars, cliVars>>

NextMakeID == CallMakeID1 \/ CallMakeID2
SpecMakeID == InitMakeID /\ [][NextMakeID]_vars

CountOf(s, c) == Cardinality({k \in 1..Len(s) : s[k] = c})
MadeBoth == id1 # NotYet /\ id2 # NotYet

\* C1: two arrays of the same length whose blank positions differ (and that
\* otherwise agree, or hold the same values in order) get different IDs; the
\* ID holds one "|" per blank part and none for a part that is not blank.
C1_BlankPositionsInjective ==
    MadeBoth =>
        /\ isString(id1) /\ isString(id2)
        /\ BlankPositions(parts1) # BlankPositions(parts2) => id1 # id2
        /\ CountOf(id1.s, "|") = Cardinality(BlankPositions(parts1))
        /\ CountOf(id2.s, "|") = Cardinality(BlankPositions(parts2))

\* two IDs made, of arrays with one blank each at different positions
C1_Witness ==
    /\ MadeBoth
    /\ Cardinality(BlankPositions(parts1)) = 1
    /\ Cardinality(BlankPositions(parts2)) = 1
    /\ BlankPositions(parts1) # BlankPositions(parts2)
    /\ id1 # id2

(***************************************************************************)
(* SpecRaw: raw(input, type) on nil, NaN and short strings.                *)
(***************************************************************************)
MaxRawLen == 3
RawAlphabet == {"0", "1", "a", " ", "-", "."}

RECURSIVE StringsUpTo(_, _)
\* the strings over alphabet of length n at most
StringsUpTo(alphabet, n) ==
    IF n = 0 THEN {<<>>}
    ELSE LET shorter == StringsUpTo(alphabet, n - 1)
         IN  shorter \cup {Append(w, c) : w \in shorter, c \in alphabet}

RawInputs == {Undefined, Null, NaN} \cup {Str(w) : w \in StringsUpTo(RawAlphabet, MaxRawLen)}
RawTypes == {"int", "float", "string"}

InitRaw ==
    /\ rawInput \in RawInputs
    /\ rawType \in RawTypes
    /\ rawResult = NotYet
    /\ parts1 = Idle /\ parts2 = Idle /\ id1 = Idle /\ id2 = Idle
    /\ NameIdle /\ MetaIdle /\ PrintIdle /\ CliIdle

CallRaw ==
    /\ rawResult = NotYet
    /\ rawResult' = raw(rawInput, rawType)
    /\ UNCHANGED <<parts1, parts2, id1, id2, rawInput, rawType>>
    /\ UNCHANGED <<nameVars, metaVars, printVars, cliVars>>

NextRaw == CallRaw
SpecRaw == InitRaw /\ [][NextRaw]_vars

Zero == Num(<<"0">>)
AllZeros(d) == \A k \in 1..Len(d) : d[k] = "0"
AllDigits(d) == \A k \in 1..Len(d) : IsDigit(d[k])

\* the text a string input is read from: leading white space and one sign dropped
NumeralText(v) == Unsigned(LTrim(v.s))

\* the input starts (after white space and a sign) with a numeral of the type
HasNumeralPrefix(v, type) ==
    /\ isString(v)
    /\ LET u == NumeralText(v)
       IN  \/ u # <<>> /\ IsDigit(u[1])
           \/ type = "float" /\ Len(u) >= 2 /\ u[1] = "." /\ IsDigit(u[2])

\* the digits of that numeral: the leading digits, and for a float the digits
\* of the fraction that follows them
PrefixDigits(v, type) ==
    LET u == NumeralText(v)
        n == RunLen(u, 1, Digits)
    IN  IF type = "float" /\ n < Len(u) /\ u[n + 1] = "."
        THEN SubSeq(u, 1, n) \o SubSeq(u, n + 2, n + 1 + RunLen(u, n + 2, Digits))
        ELSE SubSeq(u, 1, n)

\* the whole input, trimmed, is a numeral: a sign, digits, and at most one "."
IsWholeNumeral(v) ==
    /\ isString(v)
    /\ LET u == Unsigned(trim(v.s))
           dots == {k \in 1..Len(u) : u[k] = "."}
       IN  /\ \E k \in 1..Len(u) : IsDigit(u[k])
           /\ \A k \in 1..Len(u) : IsDigit(u[k]) \/ u[k] = "."
           /\ Cardinality(dots) <= 1

\* the whole input is a numeral and its value is zero
DenotesZero(v) ==
    /\ IsWholeNumeral(v)
    /\ \A k \in 1..Len(v.s) : IsDigit(v.s[k]) => v.s[k] = "0"

RawNumeric == rawResult # NotYet /\ rawType \in {"int", "float"}

Splice(s, from, to, repl) == SubSeq(s, 1, from - 1) \o repl \o SubSeq(s, to + 1, Len(s))

\* the characters of s at i..i+Len(w)-1 are w, whatever their case (flag i)
MatchesAt(s, i, w) ==
    /\ i >= 1 /\ i + Len(w) - 1 <= Len(s)
    /\ toLowerCase(SubSeq(s, i, i + Len(w) - 1)) = w

\* the first alternative of ws that is at s[i] and is followed by white space
\* (0 when none is): the alternation (a|b|c)\s of a regular expression
FirstAlternative(s, i, ws) ==
    LET ok == {k \in 1..Len(ws) :
                  /\ MatchesAt(s, i, ws[k])
                  /\ i + Len(ws[k]) <= Len(s) /\ IsSpace(s[i + Len(ws[k])])}
    IN  IF ok = {} THEN 0 ELSE CHOOSE k \in ok : \A j \in ok : k <= j

\* (^|[^a-zA-Z0-9]) before s[i]
WordStart(s, i) == i = 1 \/ ~IsAlnum(s[i - 1])

\* where the leftmost match of /(^|[^a-zA-Z0-9])(ws)\s/i has its word (0: no match)
FirstWord(s, ws) ==
    LET at == {i \in 1..Len(s) : WordStart(s, i) /\ FirstAlternative(s, i, ws) # 0}
    IN  IF at = {} THEN 0 ELSE CHOOSE i \in at : \A j \in at : i <= j

StWords == << <<"s", "t">>, <<"s", "a", "i", "n", "t">>, <<"s", "t", ".">> >>
IsdWords == << <<"i", "s", "d">>, <<"s", "s", "d">> >>

\* name.replace(/(^|[^a-zA-Z0-9])(st|saint|st\.)\s/i, '$1St. ')
replaceSt(s) ==
    LET i == FirstWord(s, StWords)
    IN  IF i = 0 THEN s
        ELSE Splice(s, i, i + Len(StWords[FirstAlternative(s, i, StWords)]),
                    <<"S", "t", ".", " ">>)

\* name.replace(/(^|[^a-zA-Z0-9])(isd|ssd)\s/i, '$1$2 ')
replaceIsd(s) ==
    LET i == FirstWord(s, IsdWords)
    IN  IF i = 0 THEN s ELSE Splice(s, i + 3, i + 3, <<" ">>)

\* where /\stwp($|\s)/i first matches (0: no match)
FirstTwp(s) ==
    LET at == {i \in 1..Len(s) :
                  /\ IsSpace(s[i])
                  /\ MatchesAt(s, i + 1, <<"t", "w", "p">>)
                  /\ (i + 3 = Len(s) \/ IsSpace(s[i + 4]))}
    IN  IF at = {} THEN 0 ELSE CHOOSE i \in at : \A j \in at : i <= j

\* name.replace(/\stwp($|\s)/i, ' Township$1')
replaceTwp(s) ==
    LET i == FirstTwp(s)
    IN  IF i = 0 THEN s
        ELSE Splice(s, i, i + 3, <<" ", "T", "o", "w", "n", "s", "h", "i", "p">>)

RECURSIVE collapseSpaces(_)
\* name.replace(/\s+/g, ' ')
collapseSpaces(s) ==
    IF s = <<>> THEN <<>>
    ELSE IF IsSpace(Head(s)) THEN <<" ">> \o collapseSpaces(LTrim(s))
    ELSE <<Head(s)>> \o collapseSpaces(Tail(s))

\* Meta.updateNames, on the name field
updateNames(n) ==
    IF n # <<>>
    THEN trim(collapseSpaces(replaceTwp(replaceIsd(replaceSt(n)))))
    ELSE n

(***************************************************************************)
(* SpecNames: a Meta object whose name is updated again and again.         *)
(***************************************************************************)
MaxPieces == 4
MaxUpdates == 2
NameFragments ==
    { <<"s", "t">>, <<"S", "t", ".">>, <<"S", "a", "i", "n", "t">>,
      <<"T", "w", "p">>, <<"I", "S", "D">>, <<" ">>, <<"x">> }

RECURSIVE NamesUpTo(_)
\* the names made of n fragments at most
NamesUpTo(n) ==
    IF n = 0 THEN {<<>>}
    ELSE LET shorter == NamesUpTo(n - 1)
         IN  shorter \cup {w \o f : w \in shorter, f \in NameFragments}

InitNames ==
    /\ name \in NamesUpTo(MaxPieces)
    /\ updates = 0
    /\ nameOnce = Idle
    /\ UtilIdle /\ MetaIdle /\ PrintIdle /\ CliIdle

\* Meta.update
Update ==
    /\ updates < MaxUpdates
    /\ name' = updateNames(name)
    /\ updates' = updates + 1
    /\ nameOnce' = IF updates = 0 THEN updateNames(name) ELSE nameOnce
    /\ UNCHANGED <<utilVars, metaVars, printVars, cliVars>>

NextNames == Update
SpecNames == InitNames /\ [][NextNames]_vars

\* C3: updating a name that was updated before leaves it as it is.
C3_UpdateNamesIdempotent == updates >= 2 => name = nameOnce

(***************************************************************************)
(* lib/utility.js titleCase and lib/meta.js: the Meta class                *)
(***************************************************************************)
RECURSIVE Capitalise(_, _)
\* titlecase(): the first letter of every word in upper case (the names of
\* the model hold none of the small words titlecase leaves in lower case)
Capitalise(s, atStart) ==
    IF s = <<>> THEN <<>>
    ELSE <<IF atStart THEN UpperChar(Head(s)) ELSE Head(s)>>
         \o Capitalise(Tail(s), IsSpace(Head(s)))

RomanWords ==
    { <<"i", "s", "d">>, <<"i">>, <<"i", "i">>, <<"i", "i", "i">>, <<"i", "v">>,
      <<"v">>, <<"v", "i">> }

\* the length of the match of (isd|i|ii|iii|iv|v|vi|[0-9]+[a-z]) at s[i] that
\* white space or the end follows (0: none)
RomanLen(s, i) ==
    LET n == RunLen(s, i, Lowers \cup Uppers \cup Digits)
        w == toLowerCase(SubSeq(s, i, i + n - 1))
        d == RunLen(s, i, Digits)
    IN  IF /\ n > 0
           /\ (i + n > Len(s) \/ IsSpace(s[i + n]))
           /\ (w \in RomanWords \/ (d >= 1 /\ n = d + 1 /\ ~IsDigit(w[n])))
        THEN n ELSE 0

\* the first of a set of positions (0 when there is none)
First(at) == IF at = {} THEN 0 ELSE CHOOSE i \in at : \A j \in at : i <= j

\* t with the n characters at i in upper case
UpperAt(t, i, n) ==
    IF i = 0 THEN t ELSE Splice(t, i, i + n - 1, toUpperCase(SubSeq(t, i, i + n - 1)))
UpperRomanAt(t, i) == UpperAt(t, i, IF i = 0 THEN 0 ELSE RomanLen(t, i))
UpperFirstRoman(t) ==
    UpperRomanAt(t, First({i \in 1..Len(t) :
                              (i = 1 \/ IsSpace(t[i - 1])) /\ RomanLen(t, i) > 0}))

\* utility.titleCase, on a string
titleCase(s) == UpperFirstRoman(Capitalise(toLowerCase(s), TRUE))

RECURSIVE split(_, _)
\* String.prototype.split on a one-character separator
split(s, sep) ==
    LET at == {i \in 1..Len(s) : s[i] = sep}
    IN  IF at = {} THEN <<s>>
        ELSE LET i == CHOOSE k \in at : \A j \in at : k <= j
             IN  <<SubSeq(s, 1, i - 1)>> \o split(SubSeq(s, i + 1, Len(s)), sep)

\* row[k] of the split row, k counted from 0
Cell(row, k) == IF k + 1 <= Len(row) THEN Str(row[k + 1]) ELSE Undefined

County == <<"c", "o", "u", "n", "t", "y">>
School == <<"s", "c", "h", "o", "o", "l">>
Local == <<"l", "o", "c", "a", "l">>
Precinct == <<"p", "r", "e", "c", "i", "n", "c", "t">>

\* a parsed record: every field the parsers set, undefined until it is set
NoFields ==
    [ county |-> Undefined, name |-> Undefined, precincts |-> Undefined,
      id |-> Undefined, contestMatch |-> Undefined, school |-> Undefined,
      countyName |-> Undefined, local |-> Undefined, precinct |-> Undefined,
      congress |-> Undefined, mnHouse |-> Undefined,
      countyCommissioner |-> Undefined, judicial |-> Undefined,
      soilWater |-> Undefined, mnSenate |-> Undefined,
      contest |-> Undefined, contestRaw |-> Undefined,
      questionTitle |-> Undefined, questionText |-> Undefined,
      district |-> Undefined, contestID |-> Undefined,
      set |-> Undefined, type |-> Undefined ]

\* what a call gives: a value returned, or an error thrown
Return(v) == [threw |-> FALSE, error |-> "", value |-> v]
Throw(e) == [threw |-> TRUE, error |-> e, value |-> NoFields]
TypeError == "TypeError: Cannot read property of undefined"

\* where s first holds w, whatever the case (0: nowhere)
Find(s, w) ==
    LET at == {i \in 1..Len(s) : MatchesAt(s, i, w)}
    IN  IF at = {} THEN 0 ELSE CHOOSE i \in at : \A j \in at : i <= j

AreaSchoolDistrict ==
    <<"a", "r", "e", "a", " ", "s", "c", "h", "o", "o", "l", " ",
      "d", "i", "s", "t", "r", "i", "c", "t">>
SchoolDistrict ==
    <<"s", "c", "h", "o", "o", "l", " ", "d", "i", "s", "t", "r", "i", "c", "t">>

\* .replace(/(area school district|school district)/i, '')
removeSchoolDistrict(s) ==
    LET a == Find(s, AreaSchoolDistrict)
        b == Find(s, SchoolDistrict)
    IN  IF b = 0 THEN s
        ELSE IF a # 0 /\ a <= b THEN Splice(s, a, a + Len(AreaSchoolDistrict) - 1, <<>>)
        ELSE Splice(s, b, b + Len(SchoolDistrict) - 1, <<>>)

Minneapolis == <<"m", "i", "n", "n", "e", "a", "p", "o", "l", "i", "s">>

\* mnHouse.replace(/[a-z]+/, '')
removeLowerRun(s) ==
    LET at == {i \in 1..Len(s) : IsLower(s[i])}
    IN  IF at = {} THEN s
        ELSE LET i == CHOOSE k \in at : \A j \in at : k <= j
             IN  Splice(s, i, i + RunLen(s, i, Lowers) - 1, <<>>)

\* Meta.parseSoSDistricts, type county
parseCounty(row, type, eid) ==
    LET county == padLeft(raw(Cell(row, 0), "string"), 2)
        nm == raw(Cell(row, 1), "string")
    IN  IF ~isString(nm) THEN Throw(TypeError)
        ELSE Return([NoFields EXCEPT
                !.county = county,
                !.name = Str(titleCase(toLowerCase(nm.s))),
                !.precincts = raw(Cell(row, 2), "int"),
                !.id = makeID(Arr(<<eid, type, county>>)),
                !.contestMatch = makeID(Arr(<<eid, type, county>>))])

\* parseSchool as it would be if Minneapolis kept the code 0001
parseSchool_keepCode(row, type, eid) ==
    LET code == padLeft(raw(Cell(row, 0), "string"), 4)
        nm == raw(Cell(row, 1), "string")
        county == padLeft(raw(Cell(row, 2), "string"), 2)
    IN  IF ~isString(nm) THEN Throw(TypeError)
        ELSE Return([NoFields EXCEPT
                !.school = code,
                !.name = Str(trim(removeSchoolDistrict(titleCase(toLowerCase(nm.s))))),
                !.county = county,
                !.countyName = raw(Cell(row, 3), "string"),
                !.id = makeID(Arr(<<eid, type, county, code>>)),
                !.contestMatch = makeID(Arr(<<eid, type, code>>))])

\* Meta.parseSoSDistricts, type school
parseSchool(row, type, eid) ==
    LET code == padLeft(raw(Cell(row, 0), "string"), 4)
        nm == raw(Cell(row, 1), "string")
        county == padLeft(raw(Cell(row, 2), "string"), 2)
    IN  IF ~isString(nm) THEN Throw(TypeError)
        ELSE LET title == trim(removeSchoolDistrict(titleCase(toLowerCase(nm.s))))
                 school == IF code = Str(<<"0", "0", "0", "1">>) /\ Find(title, Minneapolis) # 0
                           THEN Str(<<"9", "9", "9", "1">>) ELSE code
             IN  Return([NoFields EXCEPT
                    !.school = school,
                    !.name = Str(title),
                    !.county = county,
                    !.countyName = raw(Cell(row, 3), "string"),
                    !.id = makeID(Arr(<<eid, type, county, school>>)),
                    !.contestMatch = makeID(Arr(<<eid, type, school>>))])

\* parseLocal as it would be if it set no contestMatch
parseLocal_noContestMatch(row, type, eid) ==
    LET county == padLeft(raw(Cell(row, 0), "string"), 2)
        local == padLeft(raw(Cell(row, 2), "string"), 5)
        nm == raw(Cell(row, 3), "string")
    IN  IF ~isString(nm) THEN Throw(TypeError)
        ELSE Return([NoFields EXCEPT
                !.county = county,
                !.countyName = raw(Cell(row, 1), "string"),
                !.local = local,
                !.name = Str(titleCase(toLowerCase(nm.s))),
                !.id = makeID(Arr(<<eid, type, county, local>>))])

\* Meta.parseSoSDistricts, type local
parseLocal(row, type, eid) ==
    LET county == padLeft(raw(Cell(row, 0), "string"), 2)
        local == padLeft(raw(Cell(row, 2), "string"), 5)
        nm == raw(Cell(row, 3), "string")
    IN  IF ~isString(nm) THEN Throw(TypeError)
        ELSE Return([NoFields EXCEPT
                !.county = county,
                !.countyName = raw(Cell(row, 1), "string"),
                !.local = local,
                !.name = Str(titleCase(toLowerCase(nm.s))),
                !.id = makeID(Arr(<<eid, type, county, local>>)),
                !.contestMatch = makeID(Arr(<<eid, type, local>>))])

\* Meta.parseSoSDistricts, type precinct
parsePrecinct(row, type, eid) ==
    LET county == padLeft(raw(Cell(row, 0), "string"), 2)
        precinct == padLeft(raw(Cell(row, 1), "string"), 4)
        nm == raw(Cell(row, 2), "string")
        mnHouse == padLeft(raw(Cell(row, 4), "string"), 3)
        school == padLeft(raw(Cell(row, 9), "string"), 4)
    IN  IF ~isString(nm) THEN Throw(TypeError)
        ELSE Return([NoFields EXCEPT
                !.county = county,
                !.precinct = precinct,
                !.name = Str(titleCase(toLowerCase(nm.s))),
                !.congress = raw(Cell(row, 3), "string"),
                !.mnHouse = mnHouse,
                !.countyCommissioner = padLeft(raw(Cell(row, 5), "string"), 2),
                !.judicial = padLeft(raw(Cell(row, 6), "string"), 2),
                !.soilWater = padLeft(raw(Cell(row, 7), "string"), 4),
                !.local = padLeft(raw(Cell(row, 8), "string"), 5),
                !.school = school,
                !.mnSenate = IF Truthy(mnHouse) THEN Str(removeLowerRun(mnHouse.s))
                             ELSE Undefined,
                !.id = makeID(Arr(<<eid,
                          IF Truthy(school) THEN Str(type.s \o <<"-">> \o School) ELSE type,
                          IF Truthy(school) THEN school ELSE county,
                          precinct>>))])

\* parseSoSDistricts as it would be if the type were left out of the IDs
parseSoSDistricts_noKind(row, type, eid) ==
    IF ~Truthy(type) THEN Throw("Error: type not provided to parseSoSDistricts.")
    ELSE IF type = Str(County) THEN parseCounty(row, Undefined, eid)
    ELSE IF type = Str(School) THEN parseSchool(row, Undefined, eid)
    ELSE IF type = Str(Local) THEN parseLocal(row, Undefined, eid)
    ELSE IF type = Str(Precinct) THEN parsePrecinct(row, Undefined, eid)
    ELSE Return(NoFields)

\* parseSoSDistricts as it would be if it went on without a type
parseSoSDistricts_anyType(row, type, eid) ==
    IF type = Str(County) THEN parseCounty(row, type, eid)
    ELSE IF type = Str(School) THEN parseSchool(row, type, eid)
    ELSE IF type = Str(Local) THEN parseLocal(row, type, eid)
    ELSE IF type = Str(Precinct) THEN parsePrecinct(row, type, eid)
    ELSE Return(NoFields)

\* Meta.parseSoSDistricts
parseSoSDistricts(row, type, eid) ==
    IF ~Truthy(type) THEN Throw("Error: type not provided to parseSoSDistricts.")
    ELSE IF type = Str(County) THEN parseCounty(row, type, eid)
    ELSE IF type = Str(School) THEN parseSchool(row, type, eid)
    ELSE IF type = Str(Local) THEN parseLocal(row, type, eid)
    ELSE IF type = Str(Precinct) THEN parsePrecinct(row, type, eid)
    ELSE Return(NoFields)

Amendement == <<"a", "m", "e", "n", "d", "e", "m", "e", "n", "t">>

\* .replace(/[^\w\s]/g, ' ')
blankPunctuation(s) ==
    [i \in 1..Len(s) |-> IF IsAlnum(s[i]) \/ s[i] = "_" \/ IsSpace(s[i]) THEN s[i] ELSE " "]

\* Meta.parseSoSQuestions (of the question's text only the trimming is
\* modelled: the rows of the model hold no bullets and no ballot boilerplate)
parseSoSQuestions(row, type, eid) ==
    LET county == padLeft(raw(Cell(row, 0), "string"), 2)
        contestNo == padLeft(raw(Cell(row, 1), "string"), 4)
        local == padLeft(raw(Cell(row, 2), "string"), 5)
        school == padLeft(raw(Cell(row, 3), "string"), 4)
        title == raw(Cell(row, 5), "string")
        text == raw(Cell(row, 6), "string")
        statewide == county = Str(<<"8", "8">>)
        district == IF statewide THEN Str(<<"M", "N">>)
                    ELSE IF Truthy(school) THEN school
                    ELSE IF Truthy(local) THEN local
                    ELSE IF Truthy(county) THEN county
                    ELSE Undefined
        kind == IF statewide THEN Str(Amendement)
                ELSE IF Truthy(school) THEN Str(School)
                ELSE IF Truthy(local) THEN Str(Local)
                ELSE IF Truthy(county) THEN Str(County)
                ELSE type
    IN  IF ~isString(title) \/ ~isString(text) THEN Throw(TypeError)
        ELSE Return([NoFields EXCEPT
                !.county = county,
                !.contest = contestNo,
                !.local = local,
                !.school = school,
                !.contestRaw = raw(Cell(row, 4), "string"),
                !.questionTitle = Str(titleCase(toLowerCase(blankPunctuation(title.s)))),
                !.questionText = Str(trim(text.s)),
                !.district = district,
                !.type = kind,
                !.id = makeID(Arr(<<eid, kind, county, district, contestNo>>)),
                !.contestID = makeID(Arr(<<eid, kind, district, contestNo>>))])

Districts == <<"d", "i", "s", "t", "r", "i", "c", "t", "s">>
Questions == <<"q", "u", "e", "s", "t", "i", "o", "n", "s">>

\* Meta.parseSoS
parseSoS(row, properties, eid) ==
    IF properties.set = Str(Districts)
    THEN parseSoSDistricts(split(row, ";"), properties.type, eid)
    ELSE IF properties.set = Str(Questions)
    THEN parseSoSQuestions(split(row, ";"), properties.type, eid)
    ELSE Return(NoFields)

\* fields set over the properties the object was given
WithProperties(fields, properties) ==
    [fields EXCEPT
        !.set = properties.set,
        !.type = IF fields.type = Undefined THEN properties.type ELSE fields.type]

\* this.set('', parsed), unless the parser threw
Set(r, properties) == IF r.threw THEN r ELSE Return(WithProperties(r.value, properties))

\* new Meta(input, properties, options, election): the fields of the object
\* made, or the error thrown
constructor(input, properties, eid) ==
    IF isString(input) THEN Set(parseSoS(input.s, properties, eid), properties)
    ELSE IF isPlainObject(input)
    THEN Return(WithProperties([NoFields EXCEPT !.id = Str(input.s)], properties))
    ELSE IF Truthy(input)
    THEN Throw("Error: Input provided was not string or object.")
    ELSE Return(WithProperties(NoFields, properties))

(***************************************************************************)
(* SpecMeta: Meta objects constructed one after the other for one          *)
(* election; the district records built are kept.                          *)
(***************************************************************************)
MaxDistricts == 2

ElectionIds == {Str(<<"2", "0", "1", "8">>)}

Row(cells) == Str(Join(cells, <<";">>))

Aitkin == <<"a", "i", "t", "k", "i", "n">>
MinneapolisSchools ==
    <<"M", "I", "N", "N", "E", "A", "P", "O", "L", "I", "S", " ",
      "s", "c", "h", "o", "o", "l", " ", "d", "i", "s", "t", "r", "i", "c", "t">>
CountyCodes == {<<"0", "1">>, <<"2", "7">>}
PrecinctOtherCells == <<<<"8">>, <<"1", "2", "a">>, <<"3">>, <<"4">>, <<"5">>, <<"1">>>>

\* rows with every cell, rows whose code is not padded, rows without a code
\* and rows without a name
CountyRows ==
    {Row(<<c, Aitkin, <<"8", "5", "0">>>>) : c \in CountyCodes \cup {<<"1">>, <<>>}}
    \cup {Row(<<<<"2", "7">>>>), Row(<<<<"2", "7">>, <<>>, <<"8", "5", "0">>>>)}
SchoolRows ==
    {Row(<<sc, n, c, <<"x">>>>) :
        sc \in {<<"1">>, <<"0", "0", "0", "1">>, <<"2", "7">>},
        n \in {Aitkin, MinneapolisSchools}, c \in CountyCodes}
    \cup {Row(<<<<>>, Aitkin, <<"2", "7">>, <<"x">>>>), Row(<<<<"2", "7">>, <<>>, <<"2", "7">>>>),
          Row(<<<<"9", "9", "9", "1">>, Aitkin, <<"0", "1">>, <<"x">>>>)}
LocalRows ==
    {Row(<<c, <<"x">>, l, Aitkin>>) :
        c \in CountyCodes, l \in {<<"1">>, <<"0", "0", "0", "0", "1">>, <<"2", "7">>}}
    \cup {Row(<<<<"2", "7">>, <<"x">>, <<"2", "7">>>>)}
PrecinctRows ==
    {Row(<<c, p, Aitkin>> \o PrecinctOtherCells \o <<sc>>) :
        c \in CountyCodes, p \in {<<"1">>, <<"2", "7">>}, sc \in {<<>>, <<"2", "7">>}}
    \cup {Row(<<<<"2", "7">>, <<"1">>>>)}
QuestionRows ==
    {Row(<<c, <<"1">>, <<>>, <<>>, <<"q">>>> \o rest) :
        c \in {<<"2", "7">>, <<"8", "8">>},
        rest \in {<<<<>>, <<"x">>>>, <<<<"t">>, <<"x">>>>}}
    \cup {Row(<<<<"2", "7">>, <<"1">>, <<>>, <<>>, <<"q">>, <<"t">>>>)}

Properties(set, type) == [set |-> set, type |-> type]

\* the constructor calls of the model: district rows of each kind under their
\* type, rows under no type or another one, question rows, rows under no set,
\* and inputs that are no row
MetaCalls ==
    {[input |-> r, properties |-> Properties(Str(Districts), Str(County))] : r \in CountyRows}
    \cup {[input |-> r, properties |-> Properties(Str(Districts), Str(School))] : r \in SchoolRows}
    \cup {[input |-> r, properties |-> Properties(Str(Districts), Str(Local))] : r \in LocalRows}
    \cup {[input |-> r, properties |-> Properties(Str(Districts), Str(Precinct))] : r \in PrecinctRows}
    \cup {[input |-> Row(<<<<"2", "7">>, Aitkin>>),
           properties |-> Properties(Str(Districts), t)] :
              t \in {Undefined, Str(<<>>), Str(<<"w", "a", "r", "d">>)}}
    \cup {[input |-> r, properties |-> Properties(Str(Questions), Undefined)] : r \in QuestionRows}
    \cup {[input |-> Row(<<<<"2", "7">>, Aitkin>>),
           properties |-> Properties(Undefined, Str(County))]}
    \cup {[input |-> i, properties |-> Properties(Str(Districts), Str(County))] :
              i \in {Undefined, Null, Num(<<"0">>), Num(<<"5">>), True, False,
                     Arr(<<>>), Obj(<<"x">>)}}

IsDistrictRow(call) == isString(call.input) /\ call.properties.set = Str(Districts)

InitMeta ==
    /\ electionId \in ElectionIds
    /\ metaCall = Idle
    /\ metaResult = Idle
    /\ districts = {}
    /\ UtilIdle /\ NameIdle /\ PrintIdle /\ CliIdle

\* new Meta(input, properties, {}, election); a district record that was
\* built is kept with the election's districts
Construct(call) ==
    /\ Cardinality(districts) < MaxDistricts
    /\ metaCall' = call
    /\ metaResult' = constructor(call.input, call.properties, electionId)
    /\ districts' =
          IF IsDistrictRow(call) /\ ~metaResult'.threw
          THEN districts \cup {metaResult'.value}
          ELSE districts
    /\ UNCHANGED electionId
    /\ UNCHANGED <<utilVars, nameVars, printVars, cliVars>>

NextMeta == \E call \in MetaCalls : Construct(call)
SpecMeta == InitMeta /\ [][NextMeta]_vars

Kinds == {Str(County), Str(School), Str(Local), Str(Precinct)}
Constructed == metaCall # Idle

\* C4: two district records of one election that are of different kinds never
\* have the same ID, whatever their codes.
C4_KindInDistrictID ==
    \A d1, d2 \in districts :
        (d1.type \in Kinds /\ d2.type \in Kinds /\ d1.type # d2.type) => d1.id # d2.id

\* a school district and a precinct outside any school district whose codes
\* are the same: county 27 and 0027
C4_Witness ==
    \E d1, d2 \in districts :
        /\ d1.type = Str(School) /\ d2.type = Str(Precinct)
        /\ ~Truthy(d2.school)
        /\ d1.county = d2.county /\ d1.school = d2.precinct

\* C5 as stated: every district record of a supported kind has an ID and a
\* contest-match key.
C5_IdAndContestMatch ==
    \A d \in districts : d.type \in Kinds => isString(d.id) /\ isString(d.contestMatch)

\* C5: every district record of a supported kind has an ID; a county, school
\* or local record has a contest-match key as well, a precinct record has none.
C5_IdAndContestMatchButPrecinct ==
    \A d \in districts :
        d.type \in Kinds =>
            /\ isString(d.id)
            /\ d.type # Str(Precinct) => isString(d.contestMatch)
            /\ d.type = Str(Precinct) => d.contestMatch = Undefined

C5_Witness ==
    \E d1, d2 \in districts :
        /\ d1.type = Str(Precinct) /\ isString(d1.id)
        /\ d2.type = Str(Local) /\ isString(d2.contestMatch)

RowFor(call) ==
    /\ isString(call.input)
    /\ \/ call.properties.set = Str(Districts) /\ call.properties.type \in Kinds
       \/ call.properties.set = Str(Questions)

\* C6 as stated: building a record from a row of a known set and kind raises
\* no exception, whatever the row lacks.
C6_RowFailureNotRaised == (Constructed /\ RowFor(metaCall)) => ~metaResult.threw

NoType(call) ==
    /\ isString(call.input)
    /\ call.properties.set = Str(Districts)
    /\ ~Truthy(call.properties.type)

NoRowNoObject(call) == ~isString(call.input) /\ ~isPlainObject(call.input)

\* C7 as stated: every input that is neither a string nor a plain object is
\* rejected with an error.
C7_NoRowNoObjectRejected ==
    (Constructed /\ NoRowNoObject(metaCall)) => metaResult.threw

\* C7: a district row given no type is rejected with an error and no record
\* (no ID) is made of it; a truthy input that is neither a string nor a plain
\* object is rejected with an error; an input that is rejected leaves the
\* records built before as they were.
C7_RejectedAlone ==
    [][ /\ NoType(metaCall') =>
              metaResult'.threw /\ metaResult'.value.id = Undefined
        /\ (NoRowNoObject(metaCall') /\ Truthy(metaCall'.input)) => metaResult'.threw
        /\ metaResult'.threw => districts' = districts ]_vars

C7_Witness ==
    /\ Constructed /\ NoType(metaCall) /\ metaResult.threw
    /\ \E d \in districts : isString(d.id)

RECURSIVE Unpad(_)
\* a code without the zeros on its left
Unpad(code) == IF Len(code) > 1 /\ Head(code) = "0" THEN Unpad(Tail(code)) ELSE code

Cells(call) == split(call.input.s, ";")

\* the cells of a row that hold a code padded before it goes into the ID, with
\* the width each is padded to
CodeWidths(type) ==
    IF type = Str(County) THEN [k \in {1} |-> 2]
    ELSE IF type = Str(School) THEN (1 :> 4) @@ (3 :> 2)
    ELSE (1 :> 2) @@ (3 :> 5)

SameCell(type, k, a, b) ==
    IF k \in DOMAIN CodeWidths(type)
    THEN /\ a # <<>> /\ b # <<>>
         /\ Len(a) <= CodeWidths(type)[k] /\ Len(b) <= CodeWidths(type)[k]
         /\ Unpad(a) = Unpad(b)
    ELSE a = b

SameCells(type, r1, r2) ==
    /\ Len(r1) = Len(r2)
    /\ \A k \in 1..Len(r1) : SameCell(type, k, r1[k], r2[k])

\* two rows of one kind (county, school or local) that differ only in the
\* zeros on the left of their codes
PaddingApart(call1, call2) ==
    /\ call1 # call2
    /\ IsDistrictRow(call1) /\ IsDistrictRow(call2)
    /\ call1.properties = call2.properties
    /\ call1.properties.type \in {Str(County), Str(School), Str(Local)}
    /\ SameCells(call1.properties.type, Cells(call1), Cells(call2))

\* the code of a school or local district record
CodeOf(d) == IF d.type = Str(School) THEN d.school ELSE d.local

Code0001 == Str(<<"0", "0", "0", "1">>)
Code9991 == Str(<<"9", "9", "9", "1">>)

SchoolBuilt ==
    /\ Constructed /\ IsDistrictRow(metaCall)
    /\ metaCall.properties.type = Str(School) /\ ~metaResult.threw

\* the school row built last: code 0001 once padded, 'minneapolis' in its name
MinneapolisRow ==
    /\ Unpad(Cells(metaCall)[1]) = <<"1">> /\ Len(Cells(metaCall)[1]) <= 4
    /\ Find(Cells(metaCall)[2], Minneapolis) # 0

\* a 0001 row named minneapolis gets the code 9991, and a record of code 9991
\* has neither the ID nor the contest-match key of a record of code 0001
MinneapolisApart ==
    /\ (SchoolBuilt /\ MinneapolisRow) => metaResult.value.school = Code9991
    /\ \A d1, d2 \in districts :
          (/\ d1.type = Str(School) /\ d2.type = Str(School)
           /\ d1.school = Code9991 /\ d2.school = Code0001)
          => d1.id # d2.id /\ d1.contestMatch # d2.contestMatch

\* every other school row keeps its own code, padded to four digits
OthersKeepCode ==
    (SchoolBuilt /\ ~MinneapolisRow /\ Cells(metaCall)[1] # <<>>)
    => metaResult.value.school = Str(padStart(Cells(metaCall)[1], 4))

\* C18 as stated: a 0001 school row named minneapolis gets the code 9991 and
\* so an ID and a contest-match key other than those of the other 0001 school
\* districts; every other school row keeps its padded code; no two school
\* districts with different names have the same contest-match key.
C18_SchoolNamesApart ==
    /\ MinneapolisApart
    /\ OthersKeepCode
    /\ \A d1, d2 \in districts :
          (d1.type = Str(School) /\ d2.type = Str(School) /\ d1.name # d2.name)
          => d1.contestMatch # d2.contestMatch

\* C18: a 0001 school row named minneapolis gets the code 9991 and so an ID
\* and a contest-match key other than those of the school districts left with
\* code 0001; every other school row keeps its padded code; two school
\* districts have the same contest-match key exactly when they have the same
\* code after that, whatever their names.
C18_SchoolCodesApart ==
    /\ MinneapolisApart
    /\ OthersKeepCode
    /\ \A d1, d2 \in districts :
          (d1.type = Str(School) /\ d2.type = Str(School))
          => (d1.contestMatch = d2.contestMatch <=> d1.school = d2.school)

\* Minneapolis was built from a 0001 row next to Aitkin, which has code 0001
C18_Witness ==
    /\ SchoolBuilt /\ MinneapolisRow
    /\ \E d1, d2 \in districts :
          /\ d1 = metaResult.value /\ d1.school = Code9991
          /\ d2.type = Str(School) /\ d2.school = Code0001

\* C19 as stated: two precinct records of one election that differ in county
\* code or precinct code never have the same ID, with or without a school
\* code.
C19_PrecinctIdsUnique ==
    \A d1, d2 \in districts :
        (/\ d1.type = Str(Precinct) /\ d2.type = Str(Precinct)
         /\ (d1.county # d2.county \/ d1.precinct # d2.precinct))
        => d1.id # d2.id

(***************************************************************************)
(* lib/print.js: toPrint.  A number field is a natural number, or Missing  *)
(* when the object has no such field; a percent is held in tenths.  The    *)
(* tags and the fixed phrases of the lines are single symbols of the text. *)
(* The candidates of the model have a last name only, the sections neither *)
(* renames nor separators nor inline question titles.                      *)
(***************************************************************************)
Missing == -1
truthy(n) == n # Missing /\ n # 0

DigitChars == <<"0", "1", "2", "3", "4", "5", "6", "7", "8", "9">>

RECURSIVE Decimal(_)
\* the decimal text of a natural number
Decimal(n) ==
    IF n < 10 THEN <<DigitChars[n + 1]>>
    ELSE Decimal(n \div 10) \o <<DigitChars[(n % 10) + 1]>>

NaNText == <<"N", "a", "N">>
InfinityText == <<"I", "n", "f", "i", "n", "i", "t", "y">>
UndefinedText == <<"u", "n", "d", "e", "f", "i", "n", "e", "d">>

\* a number field put into a string
numberText(n) == IF n = Missing THEN UndefinedText ELSE Decimal(n)

\* utility.formatNumber(n, 0), for the numbers below 1000 of the model
formatNumber(n, decimals) == Decimal(n)

\* Math.round(percent) + '', percent in tenths
MathRound(percent) ==
    IF percent = Missing THEN NaNText ELSE Decimal((percent + 5) \div 10)

\* Math.round((precincts / totalPrecincts) * 100) + ''
roundShare(part, total) ==
    IF part = Missing \/ total = Missing \/ (part = 0 /\ total = 0) THEN NaNText
    ELSE IF total = 0 THEN InfinityText
    ELSE Decimal((200 * part + total) \div (2 * total))

tags ==
    [ heading1 |-> <<"@Head1:">>,
      heading2 |-> <<"@Elex_Head1:">>,
      heading3 |-> <<"@Elex_Head2:">>,
      heading4 |-> <<"@Elex_Head_Sub_Bold:">>,
      meta |-> <<"@Elex_Precinct:">>,
      note |-> <<"@Elex_Text_Question:">>,
      candidate |-> <<"@Elex_Text_2tabsPlusPct:">>,
      candidateNo |-> <<"@Elex_Text_2tabsPlusPct_Space:">>,
      ranked |-> <<"@Elex_Text_RCV_3choice:">>,
      ranked6 |-> <<"@Elex_Text_RCV_6choice:">>,
      question |-> <<"@Elex_Text_Question:">>,
      space |-> <<>> ]

\* tags['heading' + (hi + 2)], hi counted from 0
headingTag(hi) ==
    CASE hi = 0 -> tags.heading2
      [] hi = 1 -> tags.heading3
      [] hi = 2 -> tags.heading4
      [] OTHER -> UndefinedText

printedParties == <<<<"D">>, <<"D", "F", "L">>, <<"R">>>>
WriteInParty == <<"W", "I">>
No == <<"n", "o">>
Tab == <<"\t">>
CRLF == "\r\n"
WinnerMark == <<"<saxo:ch value=\"226 136 154\"/>">>

\* display(candidate), of a candidate with a last name only
display(candidate) == candidate.last

\* section.where.uncontested: false, {$not: true}, or not given
NotTrue == Obj(<<"$not: true">>)

\* the candidates of one party, in their order
ofParty(candidates, party) ==
    SelectSeq(candidates, LAMBDA a : a.party = party)

\* partyCopy as it would be if the copy kept the candidates of every party
partyCopy_everyParty(c, party, uncontested) ==
    IF ofParty(c.candidates, party) = <<>> THEN <<>>
    ELSE <<[c EXCEPT !.primaryParty = Str(party)]>>

\* the copy of a primary contest for one party: <<>> when it is left out
partyCopy(c, party, uncontested) ==
    IF ofParty(c.candidates, party) = <<>> THEN <<>>
    ELSE IF /\ Truthy(uncontested)
            /\ (uncontested = False \/ uncontested = NotTrue)
            /\ Len(ofParty(c.candidates, party)) <= 1
    THEN <<>>
    ELSE <<[c EXCEPT !.candidates = ofParty(c.candidates, party),
                     !.primaryParty = Str(party)]>>

RECURSIVE partyCopies(_, _, _)
partyCopies(c, parties, uncontested) ==
    IF parties = <<>> THEN <<>>
    ELSE partyCopy(c, Head(parties), uncontested)
            \o partyCopies(c, Tail(parties), uncontested)

RECURSIVE splitContests(_, _)
\* the contests printed: a partisan primary contest once for each party
splitContests(cs, sec) ==
    IF cs = <<>> THEN <<>>
    ELSE (IF Head(cs).election.primary /\ ~Head(cs).nonpartisan /\ ~Head(cs).ranked
          THEN partyCopies(Head(cs), printedParties, sec.uncontested)
          ELSE <<Head(cs)>>)
         \o splitContests(Tail(cs), sec)

defaultHeadings == <<<<"area">>, <<"name", "seatName", "subArea">>>>

\* a heading of a section: a field of the contest, or some fields joined
IsField(h) == Len(h) = 1
truthyFields(c, h) ==
    SelectSeq([i \in 1..Len(h) |-> c[h[i]]], LAMBDA v : Truthy(v))
joinedFields(vs) == Str(Join([i \in 1..Len(vs) |-> vs[i].s], <<" ">>))
headingOf(c, h) == IF IsField(h) THEN c[h[1]] ELSE joinedFields(truthyFields(c, h))

RECURSIVE headingLines(_, _, _, _, _)
\* the heading lines of contest c after the contest prev (<<>>: none)
headingLines(c, prev, headings, hi, higherHeadingChanged) ==
    IF hi >= Len(headings) THEN <<>>
    ELSE IF /\ Truthy(headingOf(c, headings[hi + 1]))
            /\ \/ hi = Len(headings) - 1 /\ ~higherHeadingChanged /\ ~c.question
               \/ higherHeadingChanged
               \/ prev = <<>>
               \/ headingOf(c, headings[hi + 1]) # headingOf(prev[1], headings[hi + 1])
    THEN <<headingTag(hi) \o headingOf(c, headings[hi + 1]).s>>
            \o headingLines(c, prev, headings, hi + 1, TRUE)
    ELSE headingLines(c, prev, headings, hi + 1, higherHeadingChanged)

noCandidates(c) ==
    \/ Len(c.candidates) = 0
    \/ Len(c.candidates) = 1 /\ c.candidates[1].party = WriteInParty

openSeats(c) ==
    IF (~c.election.primary /\ c.seats > 1) \/ (c.election.primary /\ c.seats > 2)
    THEN <<tags.meta \o <<"Open seats: ">> \o numberText(c.seats)>>
    ELSE <<>>

questionLine(c) ==
    IF Truthy(c.questionText)
    THEN <<tags.question \o collapseSpaces(c.questionText.s)>>
    ELSE <<>>

precinctsLine(c) ==
    tags.meta \o numberText(IF truthy(c.precincts) THEN c.precincts ELSE 0)
        \o <<" of ">> \o numberText(c.totalPrecincts) \o <<" precincts (">>
        \o roundShare(c.precincts, c.totalPrecincts) \o <<"%)">>

IsNo(a) == toLowerCase(a.last) = No

\* _.sortBy(c.candidates, ...): of a question, the candidates no after the others
sortCandidates(c) ==
    IF c.question
    THEN SelectSeq(c.candidates, LAMBDA a : ~IsNo(a))
            \o SelectSeq(c.candidates, LAMBDA a : IsNo(a))
    ELSE c.candidates

\* _.find(candidate.ranks, { rankedChoice: choice }).votes
rankVotes(candidate, choice) ==
    candidate.ranks[First({k \in 1..Len(candidate.ranks) :
                              candidate.ranks[k].rankedChoice = choice})].votes

RECURSIVE sumVotes(_, _)
\* _.sumBy(candidates, ...): the votes of all candidates for one choice
sumVotes(candidates, choice) ==
    IF candidates = <<>> THEN 0
    ELSE (IF rankVotes(Head(candidates), choice) = Missing THEN 0
          ELSE rankVotes(Head(candidates), choice))
         + sumVotes(Tail(candidates), choice)

\* emptyRanks as it would be if it were never computed
emptyRanks_never(c, candidates) == [defined |-> FALSE, ranks |-> {}]

\* emptyRanks: the choices no candidate has votes for, when the contest is
\* ranked and some precincts report; otherwise it stays undefined
emptyRanks(c, candidates) ==
    IF Len(candidates) > 0 /\ c.ranked /\ truthy(c.precincts)
    THEN [defined |-> TRUE,
          ranks |-> {r.rankedChoice : r \in
                        {q \in Range(candidates[1].ranks) :
                            q.rankedChoice # 0 /\ sumVotes(candidates, q.rankedChoice) = 0}}]
    ELSE [defined |-> FALSE, ranks |-> {}]

isEmptyRank(empty, rank) == empty.defined /\ rank.rankedChoice \in empty.ranks

rankVotesCell(rank, empty) ==
    IF truthy(rank.votes) THEN formatNumber(rank.votes, 0)
    ELSE IF isEmptyRank(empty, rank) THEN <<"-">>
    ELSE <<"0">>

rankPercentCell(rank, empty) ==
    IF truthy(rank.percent) THEN MathRound(rank.percent) \o <<"%">>
    ELSE IF isEmptyRank(empty, rank) THEN <<"-">>
    ELSE <<"0", "%">>

lineStart(tag, candidate) ==
    tag \o (IF candidate.winner THEN WinnerMark ELSE <<" ">>) \o Tab
        \o display(candidate) \o (IF candidate.incumbent THEN <<" ", "(", "i", ")">> ELSE <<>>)

\* the line of a candidate of a ranked contest
rankedLine(candidate, empty) ==
    lineStart(tags.ranked, candidate)
        \o Tab \o rankVotesCell(candidate.ranks[1], empty)
        \o Tab \o rankPercentCell(candidate.ranks[1], empty)
        \o Tab \o rankVotesCell(candidate.ranks[2], empty)
        \o Tab \o rankPercentCell(candidate.ranks[2], empty)
        \o Tab \o rankVotesCell(candidate.ranks[3], empty)
        \o Tab \o rankPercentCell(candidate.ranks[3], empty)
        \o Tab \o (IF truthy(candidate.votes) THEN formatNumber(candidate.votes, 0) ELSE <<"-">>)
        \o Tab \o (IF truthy(candidate.votes) THEN MathRound(candidate.percent) \o <<"%">>
                   ELSE <<"-">>)

\* the line of a candidate of any other contest
plainLine(c, candidate) ==
    lineStart(IF c.question /\ IsNo(candidate) THEN tags.candidateNo ELSE tags.candidate,
              candidate)
        \o Tab \o (IF truthy(candidate.votes) THEN formatNumber(candidate.votes, 0) ELSE <<"0">>)
        \o Tab \o (IF truthy(candidate.percent) THEN MathRound(candidate.percent) ELSE <<"0">>)
        \o <<"%">>

RECURSIVE candidateLines(_, _, _)
\* the lines of the candidates, write-ins left out
candidateLines(c, candidates, empty) ==
    IF candidates = <<>> THEN <<>>
    ELSE (IF Head(candidates).writeIn THEN <<>>
          ELSE IF c.ranked THEN <<rankedLine(Head(candidates), empty)>>
          ELSE <<plainLine(c, Head(candidates))>>)
         \o candidateLines(c, Tail(candidates), empty)

sortedLines(c, candidates) == candidateLines(c, candidates, emptyRanks(c, candidates))

\* the lines of one contest below its headings
contestLines(c) ==
    IF noCandidates(c) THEN <<tags.note \o <<"No candidates running in this contest.">>>>
    ELSE openSeats(c) \o questionLine(c) \o <<precinctsLine(c)>>
            \o sortedLines(c, sortCandidates(c))

RECURSIVE printLines_skipped(_, _, _)
\* printLines as it would be if a contest nobody runs in were not kept as the
\* previous one
printLines_skipped(cs, prev, headings) ==
    IF cs = <<>> THEN <<>>
    ELSE headingLines(Head(cs), prev, headings, 0, FALSE)
            \o contestLines(Head(cs))
            \o printLines_skipped(Tail(cs),
                                  IF noCandidates(Head(cs)) THEN prev ELSE <<Head(cs)>>,
                                  headings)

RECURSIVE printLines(_, _, _)
\* the lines of the contests cs, the contest before them being prev
printLines(cs, prev, headings) ==
    IF cs = <<>> THEN <<>>
    ELSE headingLines(Head(cs), prev, headings, 0, FALSE)
            \o contestLines(Head(cs))
            \o printLines(Tail(cs), <<Head(cs)>>, headings)

sectionHeadings(sec) == IF sec.headings = <<>> THEN defaultHeadings ELSE sec.headings

\* what toPrint leaves of a contest object it was given.  A contest that is
\* split is printed from its copies; any other is printed from the object
\* itself, which gets the title of the section and, unless nobody runs in it,
\* its candidates sorted.
printedContest(c, sec) ==
    IF c.election.primary /\ ~c.nonpartisan /\ ~c.ranked THEN c
    ELSE [c EXCEPT !.sectionTitle = sec.title,
                   !.candidates = IF noCandidates(c) THEN @ ELSE sortCandidates(c)]

\* toPrint(contests, section)
toPrint(cs, sec) ==
    IF Len(cs) = 0 THEN Undefined
    ELSE Str(Join(printLines(splitContests(cs, sec), <<>>, sectionHeadings(sec)), <<CRLF>>))

(***************************************************************************)
(* SpecPrint: a list of contests printed under one section or another.     *)
(***************************************************************************)
MaxVotes == 1
MaxContests == 2
Rounds == 3

Text(chars) == Str(chars)
Ann == <<"A", "n", "n">>
Bo == <<"B", "o">>
Cy == <<"C", "y">>
Di == <<"D", "i">>

\* a share in tenths of a percent
Share(votes, total) == IF total = 0 THEN 0 ELSE (votes * 1000) \div total

Rank(choice, votes, total) ==
    [rankedChoice |-> choice, votes |-> votes, percent |-> Share(votes, total)]

Candidate(last, party, votes, total) ==
    [ last |-> last, party |-> party, writeIn |-> party = WriteInParty,
      winner |-> votes > 0 /\ 2 * votes > total, incumbent |-> last = Bo,
      votes |-> votes, percent |-> Share(votes, total), ranks |-> <<>> ]

Contest(area, nm, candidates) ==
    [ election |-> [primary |-> FALSE], nonpartisan |-> FALSE, ranked |-> FALSE,
      question |-> FALSE, questionText |-> Undefined, seats |-> 1,
      area |-> Text(area), name |-> Text(nm), seatName |-> Undefined,
      subArea |-> Undefined, precincts |-> 1, totalPrecincts |-> 2,
      candidates |-> candidates, primaryParty |-> Undefined,
      sectionTitle |-> Undefined ]

\* the votes of the rounds of one candidate
RoundVotes == [1..Rounds -> 0..MaxVotes]

RankedCandidate(last, party, votes, totals) ==
    [Candidate(last, party, votes[1], totals[1]) EXCEPT
        !.ranks = [k \in 1..Rounds |-> Rank(k, votes[k], totals[k])]]

Totals(a, b, w) == [k \in 1..Rounds |-> a[k] + b[k] + w[k]]

\* a ranked contest of two candidates and, unless w is 0, a write-in with one
\* vote in round w or, when w is past the rounds, no vote
RankedContest(a, b, w, precincts) ==
    [Contest(<<"A">>, <<"M", "a", "y", "o", "r">>,
        <<RankedCandidate(Ann, <<"N", "P">>, a, Totals(a, b, [k \in 1..Rounds |-> IF k = w THEN 1 ELSE 0])),
          RankedCandidate(Bo, <<"N", "P">>, b, Totals(a, b, [k \in 1..Rounds |-> IF k = w THEN 1 ELSE 0]))>>
        \o (IF w = 0 THEN <<>>
            ELSE <<RankedCandidate(<<"W">>, WriteInParty,
                      [k \in 1..Rounds |-> IF k = w THEN 1 ELSE 0],
                      Totals(a, b, [k \in 1..Rounds |-> IF k = w THEN 1 ELSE 0]))>>))
     EXCEPT !.ranked = TRUE, !.precincts = precincts]

RankedContests ==
    {RankedContest(a, b, w, p) :
        a \in RoundVotes, b \in RoundVotes, w \in 0..(Rounds + 1), p \in {Missing, 0, 1}}

PrimaryContest(area, candidates) ==
    [Contest(area, <<"G", "o", "v">>, candidates) EXCEPT !.election = [primary |-> TRUE]]

\* contests of every other sort: two general contests of one area, one of
\* them with two seats and a write-in, a contest nobody runs in, two partisan
\* primaries, a question and a ranked contest
OtherContests ==
    { Contest(<<"A">>, <<"M", "a", "y", "o", "r">>,
        <<Candidate(Ann, <<"N", "P">>, 2, 3), Candidate(Bo, <<"N", "P">>, 1, 3)>>),
      [Contest(<<"A">>, <<"C", "o", "u", "n", "c", "i", "l">>,
        <<Candidate(Ann, <<"N", "P">>, 0, 0), Candidate(<<"W">>, WriteInParty, 0, 0)>>)
       EXCEPT !.seats = 2, !.seatName = Text(<<"W", "a", "r", "d", " ", "1">>),
              !.precincts = 0],
      Contest(<<"B">>, <<"M", "a", "y", "o", "r">>, <<>>),
      PrimaryContest(<<"B">>,
        <<Candidate(Ann, <<"D">>, 2, 4), Candidate(Bo, <<"D">>, 1, 4),
          Candidate(Cy, <<"R">>, 1, 4), Candidate(Di, <<"G">>, 0, 4)>>),
      PrimaryContest(<<"B">>,
        <<Candidate(Ann, <<"D", "F", "L">>, 1, 2), Candidate(Cy, <<"R">>, 1, 2)>>),
      [Contest(<<"B">>, <<"Q", "u", "e", "s", "t", "i", "o", "n">>,
        <<Candidate(<<"N", "o">>, <<"N", "P">>, 1, 3), Candidate(<<"Y", "e", "s">>, <<"N", "P">>, 2, 3)>>)
       EXCEPT !.question = TRUE, !.nonpartisan = TRUE,
              !.questionText = Text(<<"S", "h", "a", "l", "l", " ", " ", "w", "e">>)],
      RankedContest([k \in 1..Rounds |-> 1], [k \in 1..Rounds |-> 0], 0, 1) }

\* the numbers a count can be where the data has holes, and the percents
Counts == {Missing, 0, MaxVotes}
Percents == {Missing, 0, 1000}

\* a contest of one candidate whose counts can be zero or missing; r is the
\* votes of the candidate in every round of a ranked contest
NoDataContest(precincts, total, votes, percent, ranked, r) ==
    [Contest(<<"A">>, <<"M", "a", "y", "o", "r">>,
        <<[Candidate(Ann, <<"N", "P">>, 0, 0) EXCEPT
              !.votes = votes, !.percent = percent,
              !.ranks = IF ranked
                        THEN [k \in 1..Rounds |->
                                [rankedChoice |-> k, votes |-> r,
                                 percent |-> IF truthy(r) THEN 1000 ELSE r]]
                        ELSE <<>>]>>)
     EXCEPT !.precincts = precincts, !.totalPrecincts = total, !.ranked = ranked]

NoDataContests ==
    {NoDataContest(p, t, v, share, FALSE, Missing) :
        p \in Counts, t \in Counts, v \in Counts, share \in Percents}
    \cup {NoDataContest(p, t, v, share, TRUE, r) :
        p \in Counts, t \in Counts, v \in Counts, share \in Percents, r \in Counts}

RECURSIVE ListsOf(_, _)
\* the lists of n elements of a set
ListsOf(S, n) ==
    IF n = 0 THEN {<<>>}
    ELSE {<<x>> \o l : x \in S, l \in ListsOf(S, n - 1)}

PrintInputs ==
    {<<c>> : c \in RankedContests \cup NoDataContests}
    \cup UNION {ListsOf(OtherContests, n) : n \in 0..MaxContests}

Sections ==
    {[title |-> Text(<<"T">>), uncontested |-> u, headings |-> h] :
        u \in {Undefined, False, NotTrue},
        h \in {<<>>, <<<<"area">>>>}}

InitPrint ==
    /\ contests \in PrintInputs
    /\ section = Idle
    /\ printed = Idle
    /\ UtilIdle /\ NameIdle /\ MetaIdle /\ CliIdle

\* toPrint(contests, section), the contests being plain objects
PrintSection(sec) ==
    /\ section' = sec
    /\ printed' = toPrint(contests, sec)
    /\ contests' = [i \in 1..Len(contests) |-> printedContest(contests[i], sec)]
    /\ UNCHANGED <<utilVars, nameVars, metaVars, cliVars>>

NextPrint == \E sec \in Sections : PrintSection(sec)
SpecPrint == InitPrint /\ [][NextPrint]_vars

Printed == printed # Idle /\ printed # Undefined

\* the ranked contests among those printed, each with its candidates listed
listed(c) == SelectSeq(c.candidates, LAMBDA a : ~a.writeIn)
RECURSIVE RankedListed(_)
RankedListed(cs) ==
    IF cs = <<>> THEN <<>>
    ELSE (IF Head(cs).ranked /\ ~noCandidates(Head(cs))
          THEN [i \in 1..Len(listed(Head(cs))) |->
                   [contest |-> Head(cs), candidate |-> listed(Head(cs))[i]]]
          ELSE <<>>)
         \o RankedListed(Tail(cs))

\* the lines of candidates of ranked contests in the text, each split in cells
RankedLines ==
    LET lines == split(printed.s, CRLF)
        cells == [i \in 1..Len(lines) |-> split(lines[i], "\t")]
    IN  SelectSeq(cells, LAMBDA l : l # <<>> /\ l[1] # <<>> /\ <<l[1][1]>> = tags.ranked)

RoundTotal(c, k) == sumVotes(c.candidates, k)
VotesCell(line, k) == line[2 * k + 1]
PercentCell(line, k) == line[2 * k + 2]
Dashes(line, k) == VotesCell(line, k) = <<"-">> /\ PercentCell(line, k) = <<"-">>
Zeros(line, k) == VotesCell(line, k) = <<"0">> /\ PercentCell(line, k) = <<"0", "%">>

Holds(text, w) ==
    \E i \in 1..(Len(text) - Len(w) + 1) : SubSeq(text, i, i + Len(w) - 1) = w

\* C14 as stated: nothing toPrint renders is NaN, whatever counts of a contest
\* or a candidate are zero or missing: no line of the text holds "NaN".
C14_NoNaNPrinted == Printed => ~Holds(printed.s, NaNText)

\* the lines of the text
Lines == split(printed.s, CRLF)

IsPrecinctsLine(l) == l # <<>> /\ <<l[1]>> = tags.meta /\ Holds(l, <<" of ">>)
IsCandidateLine(l) ==
    l # <<>> /\ (<<l[1]>> = tags.candidate \/ <<l[1]>> = tags.candidateNo \/ <<l[1]>> = tags.ranked)

RECURSIVE CandidatesFrom(_, _)
\* how many lines of candidates follow one another from line i on
CandidatesFrom(lines, i) ==
    IF i <= Len(lines) /\ IsCandidateLine(lines[i]) THEN 1 + CandidatesFrom(lines, i + 1)
    ELSE 0

IsPartisanPrimary(c) == c.election.primary /\ ~c.nonpartisan /\ ~c.ranked

\* every contest printed is a copy of a partisan primary, and none of the
\* copies has one candidate or none
NoLoneCopy(lines) ==
    \A i \in 1..Len(lines) :
        IsPrecinctsLine(lines[i]) => CandidatesFrom(lines, i + 1) > 1

\* C15 as stated: in a section that excludes uncontested contests
\* (section.where.uncontested is false or {$not: true}), no copy of a partisan
\* primary contest with one candidate or none is printed.
C15_NoUncontestedCopy ==
    (/\ Printed /\ section.uncontested \in {False, NotTrue}
     /\ \A i \in 1..Len(contests) : IsPartisanPrimary(contests[i]))
    => NoLoneCopy(Lines)

NoteLine == tags.note \o <<"No candidates running in this contest.">>

\* the name a line of a candidate shows, and the one a candidate is shown by
NameOn(l) == split(l, "\t")[2]
NameOf(a) == display(a) \o (IF a.incumbent THEN <<" ", "(", "i", ")">> ELSE <<>>)
Names(candidates) == [i \in 1..Len(candidates) |-> NameOf(candidates[i])]

RECURSIVE NamesFrom(_, _)
\* the names on the lines of candidates that follow one another from line i on
NamesFrom(lines, i) ==
    IF i <= Len(lines) /\ IsCandidateLine(lines[i])
    THEN <<NameOn(lines[i])>> \o NamesFrom(lines, i + 1)
    ELSE <<>>

RECURSIVE BlocksFrom(_, _)
\* the blocks of the text from line i on: for each contest printed, the names
\* of its candidates in the order of their lines
BlocksFrom(lines, i) ==
    IF i > Len(lines) THEN <<>>
    ELSE (IF IsPrecinctsLine(lines[i]) \/ lines[i] = NoteLine
          THEN <<NamesFrom(lines, i + 1)>> ELSE <<>>)
         \o BlocksFrom(lines, i + 1)

\* the blocks of a partisan primary: the candidates of D, of DFL and of R, in
\* that order, for each party that has as many as least
PartyBlocks(c, least) ==
    SelectSeq([p \in 1..Len(printedParties) |->
                  [party |-> TRUE, names |-> Names(ofParty(c.candidates, printedParties[p]))]],
              LAMBDA b : Len(b.names) >= least)

\* the one block of any other contest: its candidates but the write-ins
OwnBlock(c) ==
    [party |-> FALSE, names |-> Names(IF noCandidates(c) THEN <<>> ELSE listed(c))]

RECURSIVE BlocksOf(_, _)
BlocksOf(cs, least) ==
    IF cs = <<>> THEN <<>>
    ELSE (IF IsPartisanPrimary(Head(cs)) THEN PartyBlocks(Head(cs), least)
          ELSE <<OwnBlock(Head(cs))>>)
         \o BlocksOf(Tail(cs), least)

\* a block of a party has the candidates in their order, any other block has
\* the same candidates
SameBlock(names, block) ==
    IF block.party THEN names = block.names
    ELSE Len(names) = Len(block.names) /\ Range(names) = Range(block.names)

SameBlocks(found, blocks) ==
    /\ Len(found) = Len(blocks)
    /\ \A i \in 1..Len(blocks) : SameBlock(found[i], blocks[i])

\* the split leaves the objects given as they were: those of the contests it
\* copies are not touched at all, the others are printed from the object
\* itself, which keeps all but its section title and the order of candidates
InputsKept(before, after) ==
    /\ Len(after) = Len(before)
    /\ \A i \in 1..Len(before) :
          IF IsPartisanPrimary(before[i]) THEN after[i] = before[i]
          ELSE /\ [after[i] EXCEPT !.sectionTitle = before[i].sectionTitle,
                                    !.candidates = before[i].candidates] = before[i]
               /\ SameBlock(after[i].candidates,
                            [party |-> FALSE, names |-> before[i].candidates])

\* C16 as stated: a partisan primary that is not ranked is printed as one
\* block for each party of D, DFL, R, in that order, that has a candidate,
\* with that party's candidates in their order, candidates of other parties in
\* no block; any other contest is printed once with its candidates; the split
\* modifies no contest object given.
C16_PartySplit ==
    /\ [](Printed => SameBlocks(BlocksFrom(Lines, 1), BlocksOf(contests, 1)))
    /\ [][InputsKept(contests, contests')]_vars

\* C16: as stated, but in a section whose where.uncontested is {$not: true} a
\* party gets a block only if it has two candidates or more.
C16_PartySplitButUncontested ==
    /\ [](Printed => SameBlocks(BlocksFrom(Lines, 1),
                                BlocksOf(contests, IF section.uncontested = NotTrue THEN 2 ELSE 1)))
    /\ [][InputsKept(contests, contests')]_vars

\* a primary with candidates of D, D, R and G printed in two blocks, Ann and
\* Bo then Cy, before a question printed once
C16_Witness ==
    /\ Printed /\ Len(contests) = 2
    /\ IsPartisanPrimary(contests[1]) /\ contests[2].question
    /\ Len(contests[1].candidates) = 4
    /\ section.uncontested = Undefined
    /\ BlocksFrom(Lines, 1) =
          <<<<Ann, Bo \o <<" ", "(", "i", ")">>>>, <<Cy>>, <<<<"Y", "e", "s">>, <<"N", "o">>>>>>

IsHeadingLine(l) ==
    l # <<>> /\ <<l[1]>> \in {tags.heading1, tags.heading2, tags.heading3, tags.heading4}

RECURSIVE HeadingsFrom(_, _, _)
\* the headings of the text from line i on, those above each contest printed
\* taken together; above are the headings met since the contest before
HeadingsFrom(lines, i, above) ==
    IF i > Len(lines) THEN <<>>
    ELSE IF IsHeadingLine(lines[i]) THEN HeadingsFrom(lines, i + 1, Append(above, lines[i]))
    ELSE IF IsPrecinctsLine(lines[i]) \/ lines[i] = NoteLine
    THEN <<above>> \o HeadingsFrom(lines, i + 1, <<>>)
    ELSE HeadingsFrom(lines, i + 1, above)

RECURSIVE Shown(_, _, _, _)
\* the heading of level hi (from 1) is due above the i-th contest printed: it
\* is not empty, and the contest is the first, or the heading is not that of
\* the contest before, or a heading of a higher level is due, or the level is
\* the last and the contest is no question
Shown(cs, i, headings, hi) ==
    /\ Truthy(headingOf(cs[i], headings[hi]))
    /\ \/ i = 1
       \/ headingOf(cs[i], headings[hi]) # headingOf(cs[i - 1], headings[hi])
       \/ \E higher \in 1..(hi - 1) : Shown(cs, i, headings, higher)
       \/ hi = Len(headings) /\ ~cs[i].question

\* the headings due above the i-th contest printed
Due(cs, i, headings) ==
    LET levels == SelectSeq([hi \in 1..Len(headings) |-> hi],
                            LAMBDA hi : Shown(cs, i, headings, hi))
    IN  [k \in 1..Len(levels) |->
            headingTag(levels[k] - 1) \o headingOf(cs[i], headings[levels[k]]).s]

AllDue(cs, headings) == [i \in 1..Len(cs) |-> Due(cs, i, headings)]

\* C17: above each contest printed, the heading of a level is printed if and
\* only if it is not empty and the contest is the first, or the heading is
\* not that of the contest before at that level, or a heading of a higher
\* level is printed above the contest, or the level is the last and the
\* contest is no question; the contest before is the one printed before, a
\* contest nobody runs in included.
C17_HeadingsDue ==
    Printed =>
        HeadingsFrom(Lines, 1, <<>>)
            = AllDue(splitContests(contests, section), sectionHeadings(section))

\* a contest of area B nobody runs in, then a question of area B: the area is
\* printed once, above the first, and the second has its name alone above it
C17_Witness ==
    /\ Printed /\ Len(contests) = 2 /\ section.headings = <<>>
    /\ noCandidates(contests[1]) /\ contests[2].question
    /\ contests[1].area = contests[2].area
    /\ HeadingsFrom(Lines, 1, <<>>) =
          << <<tags.heading2 \o contests[1].area.s, tags.heading3 \o contests[1].name.s>>,
             <<tags.heading3 \o contests[2].name.s>> >>

(***************************************************************************)
(* The bin script: the handlers of its commands.                           *)
(* A handler runs from one await to the next in one step; what it did is   *)
(* logged in steps.  exitCode is <<>> while the process runs.              *)
(***************************************************************************)
Threw == [t |-> "threw", s |-> <<>>]
Log(entries) == steps \o entries

\* error(...) as it would be if the process went on after the message
error_goesOn ==
    /\ exitCode' = <<1>>
    /\ pc' = pc

\* error(...): the message is put out and the process exits with status 1
error ==
    /\ exitCode' = <<1>>
    /\ pc' = "exited"

\* the handler returned: the process ends with status 0
Returned ==
    /\ exitCode' = <<0>>
    /\ pc' = "done"

\* getElections(y) and checkElection(y) let the handler go on
ElectionFound == argv.config /\ argv.election

\* the verify step of the results command as it would be if an election
\* without counts failed the verification
verifyStep_noCountsFails(outcome) ==
    IF outcome = True THEN [spin |-> "verify.succeed", error |-> FALSE]
    ELSE [spin |-> "verify.fail", error |-> TRUE]

\* the verify step of the results command: what the spinner shows for the
\* outcome of e.verify() and whether error() is called
verifyStep(outcome) ==
    IF outcome = True THEN [spin |-> "verify.succeed", error |-> FALSE]
    ELSE IF outcome = False THEN [spin |-> "verify.warn", error |-> FALSE]
    ELSE [spin |-> "verify.fail", error |-> TRUE]

\* the update of the verify command as it would be if it did not look at the
\* update option
verifyUpdate_always(config, results, update) == [config EXCEPT !.results = results]

\* the update of the verify command: the config that is in the file after it
verifyUpdate(config, results, update) ==
    IF update THEN [config EXCEPT !.results = results] ELSE config

\* the prompt of the setup command as it would be if any answer went on
confirmed_always(answer) == TRUE

\* the prompt was answered with yes (answers.confirm)
confirmed(answer) == answer = True

\* the test branch of the results command:
\* process.env.TEST_TIMELINE || y.test || y.test === ''
testResults(y) == y.env \/ Truthy(y.test) \/ y.test = Str(<<>>)

\* the test branch of the print command: process.env.TEST_TIMELINE || y.test
testPrint(y) == y.env \/ Truthy(y.test)

\* the calls of the fetch step of a command on the Election object, in order
fetchCalls(command, y) ==
    IF command = "results"
    THEN IF testResults(y)
         THEN <<"set test", "fetchResults", "testData", "exportResults">>
         ELSE <<"fetchResults">>
    ELSE IF command = "print"
    THEN IF testPrint(y)
         THEN <<"fetchResults", "testData", "exportResults">>
         ELSE <<"fetchResults">>
    ELSE <<"fetchResults">>

\* the Election object after one call: e.set('test', true) sets the flag,
\* testData puts test data into the contests, exportResults writes the results
\* out with the flag and the contests as they are
called(e, call) ==
    CASE call = "set test" -> [e EXCEPT !.test = TRUE]
      [] call = "testData" -> [e EXCEPT !.testData = TRUE]
      [] call = "exportResults" ->
            [e EXCEPT !.exported = Append(@, [test |-> e.test, testData |-> e.testData])]
      [] OTHER -> e

RECURSIVE calledAll(_, _)
calledAll(e, calls) ==
    IF calls = <<>> THEN e ELSE calledAll(called(e, Head(calls)), Tail(calls))

(***************************************************************************)
(* SpecCli: one run of a command of the bin script.                        *)
(***************************************************************************)
Commands == {"list", "results", "setup", "verify", "publish", "print"}
Tests == {Undefined, Str(<<>>), Str(<<"t">>)}
Options ==
    [config : BOOLEAN, election : BOOLEAN, update : BOOLEAN,
     cleanOnError : BOOLEAN, test : Tests, env : BOOLEAN, upload : BOOLEAN]
StoredResults == Arr(<<"a">>)
IndependentResults == {Arr(<<"a">>), Arr(<<"b">>)}
VerifyOutcomes == {True, False, Undefined, Str(<<"m", "i", "s", "m", "a", "t", "c", "h">>), Threw}
PromptOutcomes == {True, False, Threw}
NoElection == [created |-> FALSE, test |-> FALSE, testData |-> FALSE, exported |-> <<>>]

InitCli ==
    /\ cmd \in Commands
    /\ argv \in Options
    /\ pc = "start"
    /\ steps = <<>>
    /\ exitCode = <<>>
    /\ configFile = [results |-> StoredResults]
    /\ verified = NotYet
    /\ independent = NotYet
    /\ answers = NotYet
    /\ election = NoElection
    /\ supplement = "read"
    /\ UtilIdle /\ NameIdle /\ MetaIdle /\ PrintIdle

\* getElections(y) or checkElection(y) ends the run
lookupFailed ==
    /\ steps' = Log(<<"error">>)
    /\ error
    /\ UNCHANGED election

\* new Election(...) under the spinner 'Loading election'
createStep(created, next) ==
    IF created
    THEN /\ steps' = Log(<<"create.succeed">>)
         /\ pc' = next
         /\ election' = [election EXCEPT !.created = TRUE]
         /\ UNCHANGED exitCode
    ELSE /\ steps' = Log(<<"create.fail", "error">>)
         /\ error
         /\ UNCHANGED election

\* the fetch step under the spinner 'Fetching results': the first completed
\* calls are made, the next one throws unless all were made
fetchStep(calls, completed, cleaned, next) ==
    /\ election' = calledAll(election, SubSeq(calls, 1, completed))
    /\ IF completed = Len(calls)
       THEN /\ steps' = Log(calls \o <<"fetch.succeed">>)
            /\ pc' = next
            /\ UNCHANGED exitCode
       ELSE /\ steps' = Log(SubSeq(calls, 1, completed) \o <<"fetch.fail">>
                            \o (IF cleaned THEN <<"removeSync">> ELSE <<>>)
                            \o <<"error">>)
            /\ error

\* list: the elections of the config are put out
List ==
    /\ cmd = "list" /\ pc = "start"
    /\ IF ~argv.config
       THEN steps' = Log(<<"error">>) /\ error
       ELSE steps' = Log(<<"list">>) /\ Returned
    /\ UNCHANGED <<cmd, argv, configFile, verified, independent, answers, election, supplement>>
    /\ UNCHANGED <<utilVars, nameVars, metaVars, printVars>>

\* results: the config and the election are looked up and the election
\* object is created
ResultsCreate(created) ==
    /\ cmd = "results" /\ pc = "start"
    /\ IF ~ElectionFound THEN lookupFailed ELSE createStep(created, "fetch")
    /\ UNCHANGED <<cmd, argv, configFile, verified, independent, answers, supplement>>
    /\ UNCHANGED <<utilVars, nameVars, metaVars, printVars>>

\* results: the results are fetched, with test data when asked for
ResultsFetch(completed) ==
    /\ cmd = "results" /\ pc = "fetch"
    /\ fetchStep(fetchCalls(cmd, argv), completed, argv.cleanOnError, "verify")
    /\ UNCHANGED <<cmd, argv, configFile, verified, independent, answers, supplement>>
    /\ UNCHANGED <<utilVars, nameVars, metaVars, printVars>>

\* results: the results are verified
ResultsVerify(outcome) ==
    /\ cmd = "results" /\ pc = "verify"
    /\ verified' = outcome
    /\ steps' = Log(<<verifyStep(outcome).spin>>
                    \o (IF verifyStep(outcome).error THEN <<"error">> ELSE <<>>))
    /\ IF verifyStep(outcome).error THEN error ELSE Returned
    /\ UNCHANGED <<cmd, argv, configFile, independent, answers, election, supplement>>
    /\ UNCHANGED <<utilVars, nameVars, metaVars, printVars>>

\* setup: the config and the election are looked up and the prompt is
\* answered; a config without a supplement makes the handler throw, and the
\* process ends with one status or the other
SetupPrompt(configured, answer, status) ==
    /\ cmd = "setup" /\ pc = "start"
    /\ IF ~ElectionFound THEN lookupFailed /\ UNCHANGED answers
       ELSE IF ~configured
       THEN /\ steps' = Log(<<"uncaught">>)
            /\ pc' = "threw"
            /\ exitCode' = <<status>>
            /\ UNCHANGED <<answers, election>>
       ELSE /\ answers' = answer
            /\ UNCHANGED election
            /\ IF answer # Threw /\ confirmed(answer)
               THEN steps' = Log(<<"prompt">>) /\ pc' = "create" /\ UNCHANGED exitCode
               ELSE steps' = Log(<<"prompt", "error">>) /\ error
    /\ UNCHANGED <<cmd, argv, configFile, verified, independent, supplement>>
    /\ UNCHANGED <<utilVars, nameVars, metaVars, printVars>>

\* setup: the election object is created
SetupCreate(created) ==
    /\ cmd = "setup" /\ pc = "create"
    /\ createStep(created, "fetch")
    /\ UNCHANGED <<cmd, argv, configFile, verified, independent, answers, supplement>>
    /\ UNCHANGED <<utilVars, nameVars, metaVars, printVars>>

\* setup: the results are fetched
SetupFetch(completed) ==
    /\ cmd = "setup" /\ pc = "fetch"
    /\ fetchStep(fetchCalls(cmd, argv), completed, FALSE, "setup")
    /\ UNCHANGED <<cmd, argv, configFile, verified, independent, answers, supplement>>
    /\ UNCHANGED <<utilVars, nameVars, metaVars, printVars>>

\* setup: e.setupSupplement() writes the rows of the datasource; when it
\* throws, some rows may have been written
SetupSupplement(done, written) ==
    /\ cmd = "setup" /\ pc = "setup"
    /\ IF done
       THEN /\ supplement' = "written"
            /\ steps' = Log(<<"setupSupplement", "setup.succeed">>)
            /\ Returned
       ELSE /\ supplement' = IF written THEN "written" ELSE supplement
            /\ steps' = Log(<<"setupSupplement", "setup.fail", "error">>)
            /\ error
    /\ UNCHANGED <<cmd, argv, configFile, verified, independent, answers, election>>
    /\ UNCHANGED <<utilVars, nameVars, metaVars, printVars>>

\* verify: the config and the election are looked up and the independent
\* results are fetched; without the update option the handler returns
VerifyFetch(results) ==
    /\ cmd = "verify" /\ pc = "start"
    /\ IF ~ElectionFound
       THEN steps' = Log(<<"error">>) /\ error /\ UNCHANGED <<independent, configFile>>
       ELSE IF results = Threw
       THEN steps' = Log(<<"error">>) /\ error /\ UNCHANGED <<independent, configFile>>
       ELSE /\ independent' = results
            /\ IF argv.update
               THEN steps' = Log(<<"prompt">>) /\ pc' = "prompt"
                    /\ UNCHANGED <<exitCode, configFile>>
               ELSE /\ configFile' = verifyUpdate(configFile, results, argv.update)
                    /\ steps' = Log(IF configFile' # configFile THEN <<"writeFileSync">> ELSE <<>>)
                    /\ Returned
    /\ UNCHANGED <<cmd, argv, verified, answers, election, supplement>>
    /\ UNCHANGED <<utilVars, nameVars, metaVars, printVars>>

\* verify: the prompt is answered; the config file is written when the
\* answer is yes, unless the write fails
VerifyPrompt(answer, written) ==
    /\ cmd = "verify" /\ pc = "prompt"
    /\ answers' = answer
    /\ IF answer = True /\ written
       THEN /\ configFile' = verifyUpdate(configFile, independent, argv.update)
            /\ steps' = Log(<<"writeFileSync">>)
            /\ Returned
       ELSE steps' = Log(<<"error">>) /\ error /\ UNCHANGED configFile
    /\ UNCHANGED <<cmd, argv, verified, independent, election, supplement>>
    /\ UNCHANGED <<utilVars, nameVars, metaVars, printVars>>

\* publish: the config and the election are looked up and the election
\* object is created
PublishCreate(created) ==
    /\ cmd = "publish" /\ pc = "start"
    /\ IF ~ElectionFound THEN lookupFailed ELSE createStep(created, "publish")
    /\ UNCHANGED <<cmd, argv, configFile, verified, independent, answers, supplement>>
    /\ UNCHANGED <<utilVars, nameVars, metaVars, printVars>>

\* publish: the export is published
Publish(published) ==
    /\ cmd = "publish" /\ pc = "publish"
    /\ IF published
       THEN steps' = Log(<<"publish", "publish.succeed">>) /\ Returned
       ELSE steps' = Log(<<"publish.fail", "error">>) /\ error
    /\ UNCHANGED <<cmd, argv, configFile, verified, independent, answers, election, supplement>>
    /\ UNCHANGED <<utilVars, nameVars, metaVars, printVars>>

\* print: the config and the election are looked up and the election object
\* is created
PrintCreate(created) ==
    /\ cmd = "print" /\ pc = "start"
    /\ IF ~ElectionFound THEN lookupFailed ELSE createStep(created, "fetch")
    /\ UNCHANGED <<cmd, argv, configFile, verified, independent, answers, supplement>>
    /\ UNCHANGED <<utilVars, nameVars, metaVars, printVars>>

\* print: the results are fetched, with test data when asked for, and the
\* print files are exported; the handler returns unless it is to upload them
PrintFetch(completed, exported) ==
    /\ cmd = "print" /\ pc = "fetch"
    /\ IF completed < Len(fetchCalls(cmd, argv))
       THEN fetchStep(fetchCalls(cmd, argv), completed, FALSE, "print")
       ELSE /\ election' = calledAll(election, fetchCalls(cmd, argv))
            /\ IF ~exported
               THEN steps' = Log(fetchCalls(cmd, argv) \o <<"fetch.succeed", "error">>)
                    /\ error
               ELSE IF argv.upload
               THEN /\ steps' = Log(fetchCalls(cmd, argv) \o <<"fetch.succeed", "exportPrint">>)
                    /\ pc' = "upload"
                    /\ UNCHANGED exitCode
               ELSE /\ steps' = Log(fetchCalls(cmd, argv) \o <<"fetch.succeed", "exportPrint">>)
                    /\ Returned
    /\ UNCHANGED <<cmd, argv, configFile, verified, independent, answers, supplement>>
    /\ UNCHANGED <<utilVars, nameVars, metaVars, printVars>>

\* print: the print files are uploaded
PrintUpload(uploaded) ==
    /\ cmd = "print" /\ pc = "upload"
    /\ IF uploaded
       THEN steps' = Log(<<"putSaxo", "upload.succeed">>) /\ Returned
       ELSE steps' = Log(<<"upload.fail", "error">>) /\ error
    /\ UNCHANGED <<cmd, argv, configFile, verified, independent, answers, election, supplement>>
    /\ UNCHANGED <<utilVars, nameVars, metaVars, printVars>>

NextCli ==
    \/ List
    \/ \E created \in BOOLEAN : ResultsCreate(created)
    \/ \E completed \in 0..Len(fetchCalls(cmd, argv)) : ResultsFetch(completed)
    \/ \E outcome \in VerifyOutcomes : ResultsVerify(outcome)
    \/ \E configured \in BOOLEAN, answer \in PromptOutcomes, status \in 0..1 :
          SetupPrompt(configured, answer, status)
    \/ \E created \in BOOLEAN : SetupCreate(created)
    \/ \E completed \in 0..Len(fetchCalls(cmd, argv)) : SetupFetch(completed)
    \/ \E done \in BOOLEAN, written \in BOOLEAN : SetupSupplement(done, written)
    \/ \E results \in IndependentResults \cup {Threw} : VerifyFetch(results)
    \/ \E answer \in PromptOutcomes, written \in BOOLEAN : VerifyPrompt(answer, written)
    \/ \E created \in BOOLEAN : PublishCreate(created)
    \/ \E published \in BOOLEAN : Publish(published)
    \/ \E created \in BOOLEAN : PrintCreate(created)
    \/ \E completed \in 0..Len(fetchCalls(cmd, argv)), exported \in BOOLEAN :
          PrintFetch(completed, exported)
    \/ \E uploaded \in BOOLEAN : PrintUpload(uploaded)
SpecCli == InitCli /\ [][NextCli]_vars

Did(entry) == \E i \in 1..Len(steps) : steps[i] = entry

\* C9: in the results command a verification that matches ends the run with
\* status 0, one without counts ends it with a warning, without the error
\* report and with status 0, and any other outcome, an exception too, ends it
\* with the error report and status 1.
C9_VerifyTriState ==
    (cmd = "results" /\ verified # NotYet) =>
        /\ verified = True =>
              Did("verify.succeed") /\ ~Did("error") /\ exitCode = <<0>>
        /\ verified = False =>
              Did("verify.warn") /\ ~Did("error") /\ exitCode = <<0>>
        /\ verified \notin {True, False} =>
              Did("verify.fail") /\ Did("error") /\ exitCode = <<1>>

C9_Witness ==
    /\ cmd = "results" /\ verified = False
    /\ Did("verify.warn") /\ exitCode = <<0>>

\* C10: the config file is written, and holds other results than the stored
\* ones, only in a run of the verify command that was given the update option
\* and whose prompt was confirmed; then it holds the independent results.
C10_NoAutoCorrect ==
    (Did("writeFileSync") \/ configFile.results # StoredResults) =>
        /\ cmd = "verify" /\ argv.update /\ answers = True
        /\ configFile.results = independent

\* a run of verify without the update option that found other results than
\* the stored ones and left the file as it was
C10_Witness ==
    /\ cmd = "verify" /\ ~argv.update /\ exitCode = <<0>>
    /\ independent # NotYet /\ independent # StoredResults
    /\ configFile.results = StoredResults /\ ~Did("writeFileSync")

\* where the log first holds an entry (0: nowhere)
At(entry) == First({i \in 1..Len(steps) : steps[i] = entry})
InOrder(first, second) == At(first) # 0 /\ At(first) < At(second)

\* C11: the supplement datasource is written, and setupSupplement is called,
\* only in a run of the setup command, after the prompt was confirmed, the
\* election was created and the results were fetched, in this order.
C11_SupplementOnlyBySetup ==
    (supplement = "written" \/ Did("setupSupplement")) =>
        /\ cmd = "setup" /\ answers = True /\ election.created
        /\ InOrder("prompt", "create.succeed")
        /\ InOrder("create.succeed", "fetch.succeed")
        /\ InOrder("fetch.succeed", "setupSupplement")
        /\ ~Did("create.fail") /\ ~Did("fetch.fail")

C11_Witness ==
    /\ cmd = "setup" /\ supplement = "written" /\ exitCode = <<0>>
    /\ Did("setup.succeed")

Stage(entry) == Did(entry \o ".succeed") \/ Did(entry \o ".fail") \/ Did(entry \o ".warn")

\* C12: in a run of the results command the election is created before the
\* results are fetched and the results are fetched before they are verified;
\* a stage that fails ends the run with the error report and status 1, no
\* later stage runs, and nothing runs once the process has exited.
C12_ResultsAllOrNothing ==
    cmd = "results" =>
        /\ Stage("fetch") => InOrder("create.succeed", "fetchResults") \/
                             InOrder("create.succeed", "fetch.fail")
        /\ Stage("verify") =>
              /\ InOrder("create.succeed", "fetch.succeed")
              /\ \/ InOrder("fetch.succeed", "verify.succeed")
                 \/ InOrder("fetch.succeed", "verify.warn")
                 \/ InOrder("fetch.succeed", "verify.fail")
        /\ (Did("create.fail") \/ Did("fetch.fail") \/ Did("verify.fail")) =>
              exitCode = <<1>> /\ steps[Len(steps)] = "error"
        /\ Did("create.fail") => ~Stage("fetch") /\ ~Did("fetchResults") /\ ~Stage("verify")
        /\ Did("fetch.fail") => ~Stage("verify")
        /\ exitCode # <<>> => ~ENABLED NextCli

C12_Witness ==
    /\ cmd = "results" /\ Did("create.succeed") /\ Did("fetch.fail")
    /\ exitCode = <<1>> /\ ~Stage("verify")

\* C20 as stated: whenever results that hold test data are exported, the
\* election's test flag is set.
C20_TestDataMarkedTest ==
    \A i \in 1..Len(election.exported) :
        election.exported[i].testData => election.exported[i].test

====
